---------------------------- MODULE Spec2Model ----------------------------
(***************************************************************************)
(* Model of the B3D math DSL compiler (scripts/gen-math.py): the lexer,    *)
(* the recursive-descent parser, the C code generator and the driver.      *)
(*                                                                         *)
(* Text is a sequence of code points.  An ASCII code point is the          *)
(* one-character string itself; a non-ASCII code point is the string       *)
(* "U+XXXX" of its Unicode number.                                         *)
(***************************************************************************)
EXTENDS Integers, Sequences, FiniteSets, TLC

VARIABLES
    source,            \* Lexer.source
    pos,               \* Lexer.pos
    line,              \* Lexer.line
    col,               \* Lexer.col
    tokens,            \* Lexer.tokens
    bracket_depth,     \* Lexer.bracket_depth
    paren_depth,       \* Lexer.paren_depth
    pc,                \* position of the driver (or of the modelled routine)
    funcs,             \* list of FuncDef returned by Parser.parse
    raised,            \* the exception that ended the run, or NoError
    mode,              \* Mode.FLOAT / Mode.FIXED
    suffix,            \* CodeGen.suffix
    emit_int_context,  \* CodeGen.emit_int_context
    lines,             \* generate_c: lines
    func_idx,          \* generate_c: number of funcs already emitted by the loop
    written,           \* what main wrote to the output file / stdout
    expr,              \* emit_sum / emit_comprehension: expr
    indices,           \* emit_sum / emit_comprehension: indices
    terms,             \* emit_sum: terms / emit_comprehension: elements
    expansion,         \* value returned by emit_sum / emit_comprehension
    examples_dir,      \* check-math-usage main: the sorted *.c files of examples/, or NoDir
    file_idx,          \* main: number of the file of c_files being checked
    content,           \* check_file: content
    cleaned_lines,     \* strip_comments_and_strings: result
    in_block_comment,  \* strip_comments_and_strings: in_block_comment
    errors,            \* check_file: errors
    total_errors,      \* main: total_errors
    files_with_errors, \* main: files_with_errors
    exit_code          \* value returned by main, NoExit while it runs

vars == <<source, pos, line, col, tokens, bracket_depth, paren_depth, pc,
          funcs, raised, mode, suffix, emit_int_context, lines, func_idx,
          written, expr, indices, terms, expansion, examples_dir, file_idx,
          content, cleaned_lines, in_block_comment, errors, total_errors,
          files_with_errors, exit_code>>

lexer_vars == <<pos, line, col, tokens, bracket_depth, paren_depth>>
gen_vars == <<funcs, mode, suffix, emit_int_context, lines, func_idx, written>>
expand_vars == <<expr, indices, terms, expansion>>
lint_vars == <<examples_dir, file_idx, content, cleaned_lines, in_block_comment, errors,
               total_errors, files_with_errors, exit_code>>
gen_math_vars == <<source, lexer_vars, funcs, raised, mode, suffix, emit_int_context, lines,
                   func_idx, written, expand_vars>>

----------------------------------------------------------------------------
(* Bounds of the model *)

MaxSrcLen == 3       \* longest source text enumerated for the lexer
MaxFuncs == 3        \* longest FuncDef list enumerated for the generator
MaxIndex == 3        \* largest number in the numeric ranges enumerated for the expansion
MaxExamples == 2     \* largest number of files in examples/

----------------------------------------------------------------------------
(* Code points *)

NL == "\n"
NUL == "NUL"          \* the "\0" that Lexer.peek returns past the end
BSL == "\\"
TAB == "\t"
CR == "\r"

cpMidDot == "U+00B7"
cpDotOp == "U+22C5"
cpTimes == "U+00D7"
cpNorm == "U+2016"
cpSqrt == "U+221A"
cpSum == "U+2211"
cpIn == "U+2208"
cpTranspose == "U+1D40"
cpTheta == "U+03B8"
cpPi == "U+03C0"
cpEpsilon == "U+03B5"
cpDelta == "U+03B4"
cpAlpha == "U+03B1"
cpReal == "U+211D"
cpInt == "U+2124"
cpSubI == "U+1D62"
cpSubJ == "U+2C7C"
cpSubK == "U+2096"
cpSubL == "U+2097"
cpSubM == "U+2098"
cpSubN == "U+2099"
cpSub0 == "U+2080"
cpSub1 == "U+2081"
cpSub2 == "U+2082"
cpSub3 == "U+2083"
cpSub4 == "U+2084"
cpSup0 == "U+2070"
cpSup1 == "U+00B9"
cpSup2 == "U+00B2"
cpSup3 == "U+00B3"
cpSup4 == "U+2074"
cpSup5 == "U+2075"
cpSupX == "U+02E3"

AsciiLower == {"a","b","c","d","e","f","g","h","i","j","k","l","m",
               "n","o","p","q","r","s","t","u","v","w","x","y","z"}
AsciiUpper == {"A","B","C","D","E","F","G","H","I","J","K","L","M",
               "N","O","P","Q","R","S","T","U","V","W","X","Y","Z"}
AsciiDigit == {"0","1","2","3","4","5","6","7","8","9"}

\* str.isdigit / str.isalpha / str.isalnum on the code points of the model
isdigit(ch) ==
    ch \in AsciiDigit \cup {cpSub0, cpSub1, cpSub2, cpSub3, cpSub4,
                            cpSup0, cpSup1, cpSup2, cpSup3, cpSup4, cpSup5}

isalpha(ch) ==
    ch \in AsciiLower \cup AsciiUpper
           \cup {cpTheta, cpPi, cpEpsilon, cpDelta, cpAlpha, cpReal, cpInt,
                 cpTranspose, cpSupX,
                 cpSubI, cpSubJ, cpSubK, cpSubL, cpSubM, cpSubN}

isalnum(ch) == isalpha(ch) \/ isdigit(ch)

\* str.lower, one code point
lower_ch(ch) ==
    CASE ch = "A" -> "a" [] ch = "B" -> "b" [] ch = "C" -> "c" [] ch = "D" -> "d"
      [] ch = "E" -> "e" [] ch = "F" -> "f" [] ch = "G" -> "g" [] ch = "H" -> "h"
      [] ch = "I" -> "i" [] ch = "J" -> "j" [] ch = "K" -> "k" [] ch = "L" -> "l"
      [] ch = "M" -> "m" [] ch = "N" -> "n" [] ch = "O" -> "o" [] ch = "P" -> "p"
      [] ch = "Q" -> "q" [] ch = "R" -> "r" [] ch = "S" -> "s" [] ch = "T" -> "t"
      [] ch = "U" -> "u" [] ch = "V" -> "v" [] ch = "W" -> "w" [] ch = "X" -> "x"
      [] ch = "Y" -> "y" [] ch = "Z" -> "z" [] OTHER -> ch

lower(s) == [i \in 1..Len(s) |-> lower_ch(s[i])]

----------------------------------------------------------------------------
(* Tables of the lexer *)

Token(type, value, ln, cl) == [type |-> type, value |-> value, line |-> ln, col |-> cl]

UNICODE_MAP ==
    (cpMidDot :> "DOT") @@ (cpDotOp :> "DOT") @@ (cpTimes :> "CROSS")
    @@ (cpNorm :> "NORM_OPEN") @@ (cpSqrt :> "SQRT") @@ (cpSum :> "SUM")
    @@ (cpIn :> "IN") @@ (cpTranspose :> "TRANSPOSE") @@ (cpTheta :> "THETA")
    @@ (cpPi :> "PI") @@ (cpEpsilon :> "EPSILON") @@ (cpDelta :> "DELTA")
    @@ (cpReal :> "REAL") @@ (cpInt :> "INT")

LATEX_ESCAPES ==
    (<<"s", "u", "m">> :> "SUM") @@ (<<"i", "n">> :> "IN") @@ (<<"c", "d", "o", "t">> :> "DOT") @@ (<<"d", "o", "t">> :> "DOT")
    @@ (<<"t", "i", "m", "e", "s">> :> "CROSS") @@ (<<"c", "r", "o", "s", "s">> :> "CROSS") @@ (<<"s", "q", "r", "t">> :> "SQRT")
    @@ (<<"n", "o", "r", "m">> :> "NORM_OPEN") @@ (<<"T">> :> "TRANSPOSE")
    @@ (<<"t", "r", "a", "n", "s", "p", "o", "s", "e">> :> "TRANSPOSE") @@ (<<"t", "h", "e", "t", "a">> :> "THETA") @@ (<<"p", "i">> :> "PI")
    @@ (<<"e", "p", "s", "i", "l", "o", "n">> :> "EPSILON") @@ (<<"e", "p", "s">> :> "EPSILON") @@ (<<"d", "e", "l", "t", "a">> :> "DELTA")
    @@ (<<"R">> :> "REAL") @@ (<<"R", "e", "a", "l">> :> "REAL") @@ (<<"Z">> :> "INT") @@ (<<"I", "n", "t">> :> "INT")

SUBSCRIPTS ==
    (cpSubI :> "i") @@ (cpSubJ :> "j") @@ (cpSubK :> "k") @@ (cpSubL :> "l")
    @@ (cpSubM :> "m") @@ (cpSubN :> "n") @@ (cpSub0 :> "0") @@ (cpSub1 :> "1")
    @@ (cpSub2 :> "2") @@ (cpSub3 :> "3") @@ (cpSub4 :> "4")

SUPERSCRIPTS ==
    (cpSup0 :> "0") @@ (cpSup1 :> "1") @@ (cpSup2 :> "2") @@ (cpSup3 :> "3")
    @@ (cpSup4 :> "4") @@ (cpSup5 :> "5") @@ (cpSupX :> "x")

KEYWORDS ==
    (<<"w", "h", "e", "r", "e">> :> "WHERE") @@ (<<"l", "e", "t">> :> "LET") @@ (<<"i", "n">> :> "IN_KW")
    @@ (<<"i", "f">> :> "IF") @@ (<<"t", "h", "e", "n">> :> "THEN") @@ (<<"e", "l", "s", "e">> :> "ELSE")
    @@ (<<"s", "i", "n">> :> "SIN") @@ (<<"c", "o", "s">> :> "COS") @@ (<<"t", "a", "n">> :> "TAN")
    @@ (<<"a", "b", "s">> :> "ABS") @@ (<<"f", "l", "o", "o", "r">> :> "FLOOR") @@ (<<"m", "i", "n">> :> "MIN")
    @@ (<<"m", "a", "x">> :> "MAX") @@ (<<"c", "l", "a", "m", "p">> :> "CLAMP")

\* the dict `simple` of Lexer.tokenize
simple ==
    ("+" :> "PLUS") @@ ("-" :> "MINUS") @@ ("*" :> "STAR") @@ ("/" :> "SLASH")
    @@ ("=" :> "EQ") @@ ("<" :> "LT") @@ (">" :> "GT") @@ ("|" :> "PIPE")
    @@ ("(" :> "LPAREN") @@ (")" :> "RPAREN") @@ ("[" :> "LBRACKET")
    @@ ("]" :> "RBRACKET") @@ ("{" :> "LBRACE") @@ ("}" :> "RBRACE")
    @@ ("," :> "COMMA") @@ (":" :> "COLON") @@ (";" :> "SEMICOLON")

\* the lower-case Greek letters accepted as the start of an identifier
\* (of U+03B1..U+03C9 the model carries alpha, delta, epsilon, theta, pi)
GreekLower == {cpAlpha, cpDelta, cpEpsilon, cpTheta, cpPi}

----------------------------------------------------------------------------
(* Lexer.  A cursor is the record [pos, line, col] of the lexer's fields. *)

Lexer_peek(src, p, offset) ==
    IF p + offset >= Len(src) THEN NUL ELSE src[p + offset + 1]

Lexer_advance(src, c) ==
    LET ch == Lexer_peek(src, c.pos, 0)
    IN  [pos |-> c.pos + 1,
         line |-> IF ch = NL THEN c.line + 1 ELSE c.line,
         col |-> IF ch = NL THEN 1 ELSE c.col + 1]

\* the inner loop of skip_whitespace_and_comments: to the end of the comment
RECURSIVE skip_comment(_, _)
skip_comment(src, c) ==
    IF Lexer_peek(src, c.pos, 0) \notin {NL, NUL}
    THEN skip_comment(src, Lexer_advance(src, c))
    ELSE c

RECURSIVE skip_whitespace_and_comments(_, _)
skip_whitespace_and_comments(src, c) ==
    IF c.pos < Len(src)
    THEN LET ch == Lexer_peek(src, c.pos, 0)
         IN  IF ch = "#"
             THEN skip_whitespace_and_comments(src, skip_comment(src, c))
             ELSE IF ch \in {" ", TAB, CR}
             THEN skip_whitespace_and_comments(src, Lexer_advance(src, c))
             ELSE c
    ELSE c

\* the loop of read_number; yields [result, c]
RECURSIVE read_number_loop(_, _, _, _)
read_number_loop(src, c, result, has_decimal) ==
    LET ch == Lexer_peek(src, c.pos, 0)
    IN  IF isdigit(ch)
        THEN read_number_loop(src, Lexer_advance(src, c), Append(result, ch), has_decimal)
        ELSE IF ch = "." /\ ~has_decimal
        THEN IF Lexer_peek(src, c.pos, 1) = "."
             THEN [result |-> result, c |-> c]
             ELSE read_number_loop(src, Lexer_advance(src, c), Append(result, ch), TRUE)
        ELSE [result |-> result, c |-> c]

read_number(src, c) ==
    LET start_col == c.col
        r == read_number_loop(src, c, <<>>, FALSE)
    IN  [tok |-> Token("NUMBER", r.result, r.c.line, start_col), c |-> r.c]

\* the loop of read_ident ("Rest of identifier"); yields [result, c]
RECURSIVE read_ident_loop(_, _, _)
read_ident_loop(src, c, result) ==
    LET ch == Lexer_peek(src, c.pos, 0)
    IN  IF isalnum(ch) \/ ch = "_"
        THEN read_ident_loop(src, Lexer_advance(src, c), Append(result, ch))
        ELSE IF ch \in DOMAIN SUBSCRIPTS
        THEN read_ident_loop(src, Lexer_advance(src, c), result \o <<"_", SUBSCRIPTS[ch]>>)
        ELSE [result |-> result, c |-> c]

\* read_ident with the column read after the loop
read_ident_end_col(src, c) ==
    LET first == Lexer_peek(src, c.pos, 0)
        r == read_ident_loop(src, Lexer_advance(src, c), <<first>>)
        name == r.result
    IN  IF lower(name) \in DOMAIN KEYWORDS
        THEN [tok |-> Token(KEYWORDS[lower(name)], name, r.c.line, r.c.col), c |-> r.c]
        ELSE [tok |-> Token("IDENT", name, r.c.line, r.c.col), c |-> r.c]

read_ident(src, c) ==
    LET start_col == c.col
        first == Lexer_peek(src, c.pos, 0)
        r == read_ident_loop(src, Lexer_advance(src, c), <<first>>)
        name == r.result
    IN  IF lower(name) \in DOMAIN KEYWORDS
        THEN [tok |-> Token(KEYWORDS[lower(name)], name, r.c.line, start_col), c |-> r.c]
        ELSE [tok |-> Token("IDENT", name, r.c.line, start_col), c |-> r.c]

\* while self.peek().isalnum(): escape_name.append(self.advance())
RECURSIVE read_escape_name(_, _, _)
read_escape_name(src, c, escape_name) ==
    LET ch == Lexer_peek(src, c.pos, 0)
    IN  IF isalnum(ch)
        THEN read_escape_name(src, Lexer_advance(src, c), Append(escape_name, ch))
        ELSE [result |-> escape_name, c |-> c]

\* while self.peek() in SUPERSCRIPTS: result.append(SUPERSCRIPTS[self.advance()])
RECURSIVE read_superscripts(_, _, _)
read_superscripts(src, c, result) ==
    LET ch == Lexer_peek(src, c.pos, 0)
    IN  IF ch \in DOMAIN SUPERSCRIPTS
        THEN read_superscripts(src, Lexer_advance(src, c), Append(result, SUPERSCRIPTS[ch]))
        ELSE [result |-> result, c |-> c]

\* while self.peek().isdigit() or self.peek() == "x": result.append(self.advance())
RECURSIVE read_caret_digits(_, _, _)
read_caret_digits(src, c, result) ==
    LET ch == Lexer_peek(src, c.pos, 0)
    IN  IF isdigit(ch) \/ ch = "x"
        THEN read_caret_digits(src, Lexer_advance(src, c), Append(result, ch))
        ELSE [result |-> result, c |-> c]

advance2(src, c) == Lexer_advance(src, Lexer_advance(src, c))

\* newline handling looking at the bracket counter alone
newline_significant_brackets(st) == st.bracket_depth = 0

\* if self.bracket_depth == 0 and self.paren_depth == 0
newline_significant(st) == st.bracket_depth = 0 /\ st.paren_depth = 0

\* an unknown character left where it is
skip_unknown_stay(src, c) == c

\* "Skip unknown characters": self.advance()
skip_unknown(src, c) == Lexer_advance(src, c)

\* One iteration of the while loop of Lexer.tokenize, on the lexer state
\* st = [pos, line, col, tokens, bracket_depth, paren_depth].
tokenize_iteration(src, st) ==
    LET c0 == skip_whitespace_and_comments(src, [pos |-> st.pos, line |-> st.line, col |-> st.col])
        ch == Lexer_peek(src, c0.pos, 0)
        start_line == c0.line
        start_col == c0.col
        next == Lexer_peek(src, c0.pos, 1)
        c1 == Lexer_advance(src, c0)
        moved(c) == [st EXCEPT !.pos = c.pos, !.line = c.line, !.col = c.col]
        emit(c, tok) == [moved(c) EXCEPT !.tokens = Append(st.tokens, tok)]
    IN  IF c0.pos >= Len(src)
        THEN moved(c0)                                                    \* break
        ELSE IF ch = NL
        THEN IF newline_significant(st)
             THEN emit(c1, Token("NEWLINE", <<NL>>, start_line, start_col))
             ELSE moved(c1)
        ELSE IF ch = BSL
        THEN LET r == read_escape_name(src, c1, <<>>)
             IN  IF r.result \in DOMAIN LATEX_ESCAPES
                 THEN emit(r.c, Token(LATEX_ESCAPES[r.result], <<BSL>> \o r.result, start_line, start_col))
                 ELSE emit(r.c, Token("IDENT", r.result, start_line, start_col))
        ELSE IF ch \in DOMAIN UNICODE_MAP
        THEN emit(c1, Token(UNICODE_MAP[ch], <<ch>>, start_line, start_col))
        ELSE IF ch \in DOMAIN SUBSCRIPTS
        THEN emit(c1, Token("SUBSCRIPT", <<SUBSCRIPTS[ch]>>, start_line, start_col))
        ELSE IF ch \in DOMAIN SUPERSCRIPTS
        THEN LET r == read_superscripts(src, c0, <<>>)
             IN  emit(r.c, Token("SUPERSCRIPT", r.result, start_line, start_col))
        ELSE IF isdigit(ch)
        THEN LET r == read_number(src, c0) IN emit(r.c, r.tok)
        ELSE IF isalpha(ch) \/ ch = "_" \/ ch \in GreekLower
        THEN LET r == read_ident(src, c0) IN emit(r.c, r.tok)
        ELSE IF ch = "." /\ next = "."
        THEN emit(advance2(src, c0), Token("IDENT", <<".", ".">>, start_line, start_col))
        ELSE IF ch = "."
        THEN emit(c1, Token("DOT", <<".">>, start_line, start_col))
        ELSE IF ch = "-" /\ next = ">"
        THEN emit(advance2(src, c0), Token("IDENT", <<"-", ">">>, start_line, start_col))
        ELSE IF ch = "|" /\ next = "|"
        THEN emit(advance2(src, c0), Token("NORM_OPEN", <<"|", "|">>, start_line, start_col))
        ELSE IF ch = "^" /\ isdigit(next)
        THEN LET r == read_caret_digits(src, c1, <<>>)
             IN  emit(r.c, Token("SUPERSCRIPT", r.result, start_line, start_col))
        ELSE IF ch = "<" /\ next = "="
        THEN emit(advance2(src, c0), Token("LE", <<"<", "=">>, start_line, start_col))
        ELSE IF ch = ">" /\ next = "="
        THEN emit(advance2(src, c0), Token("GE", <<">", "=">>, start_line, start_col))
        ELSE IF ch \in DOMAIN simple
        THEN LET bd == IF ch = "[" THEN st.bracket_depth + 1
                       ELSE IF ch = "]" THEN (IF st.bracket_depth - 1 > 0 THEN st.bracket_depth - 1 ELSE 0)
                       ELSE st.bracket_depth
                 pd == IF ch = "[" \/ ch = "]" THEN st.paren_depth
                       ELSE IF ch = "(" THEN st.paren_depth + 1
                       ELSE IF ch = ")" THEN (IF st.paren_depth - 1 > 0 THEN st.paren_depth - 1 ELSE 0)
                       ELSE st.paren_depth
             IN  [emit(c1, Token(simple[ch], <<ch>>, start_line, start_col))
                    EXCEPT !.bracket_depth = bd, !.paren_depth = pd]
        ELSE moved(skip_unknown(src, c0))

lexer_state ==
    [pos |-> pos, line |-> line, col |-> col, tokens |-> tokens,
     bracket_depth |-> bracket_depth, paren_depth |-> paren_depth]

\* Lexer.tokenize run to completion (the driver's call), for the routines
\* that take a token list.
RECURSIVE tokenize_from(_, _)
tokenize_from(src, st) ==
    IF st.pos < Len(src)
    THEN tokenize_from(src, tokenize_iteration(src, st))
    ELSE Append(st.tokens, Token("EOF", <<>>, st.line, st.col))

tokenize(src) ==
    tokenize_from(src, [pos |-> 0, line |-> 1, col |-> 1, tokens |-> <<>>,
                        bracket_depth |-> 0, paren_depth |-> 0])

----------------------------------------------------------------------------
(* AST nodes *)

NumExpr(value) == [tag |-> "NumExpr", value |-> value]
VarExpr(name) == [tag |-> "VarExpr", name |-> name]
BinOpExpr(op, left, right) == [tag |-> "BinOpExpr", op |-> op, left |-> left, right |-> right]
UnaryExpr(op, operand) == [tag |-> "UnaryExpr", op |-> op, operand |-> operand]
CallExpr(func, args) == [tag |-> "CallExpr", func |-> func, args |-> args]
IndexExpr(base, index) == [tag |-> "IndexExpr", base |-> base, index |-> index]
MatrixIndexExpr(base, row, c) == [tag |-> "MatrixIndexExpr", base |-> base, row |-> row, col |-> c]
DotAccessExpr(base, field) == [tag |-> "DotAccessExpr", base |-> base, field |-> field]
SumExpr(var, range_expr, body) == [tag |-> "SumExpr", var |-> var, range_expr |-> range_expr, body |-> body]
NormExpr(operand) == [tag |-> "NormExpr", operand |-> operand]
VectorExpr(elements) == [tag |-> "VectorExpr", elements |-> elements]
ComprehensionExpr(body, var, range_expr) ==
    [tag |-> "ComprehensionExpr", body |-> body, var |-> var, range_expr |-> range_expr]
MatrixExpr(rows) == [tag |-> "MatrixExpr", rows |-> rows]
LetExpr(bindings, body) == [tag |-> "LetExpr", bindings |-> bindings, body |-> body]
IfExpr(cond, then_expr, else_expr) ==
    [tag |-> "IfExpr", cond |-> cond, then_expr |-> then_expr, else_expr |-> else_expr]
Param(name, type_str) == [name |-> name, type_str |-> type_str]
FuncDef(name, params, return_type, body) ==
    [name |-> name, params |-> params, return_type |-> return_type, body |-> body]

----------------------------------------------------------------------------
(* Parser.  Every routine takes the token list and the parser's pos and     *)
(* yields [ok, node, pos, err]: the value returned and the new pos, or the  *)
(* exception raised.                                                        *)

NoError == [kind |-> "none"]
None == [tag |-> "None"]

Ok(node, p) == [ok |-> TRUE, node |-> node, pos |-> p, err |-> NoError]
Raise(err, p) == [ok |-> FALSE, node |-> None, pos |-> p, err |-> err]

\* A call that raises ends the caller as well: the exception propagates.
Then(r, F(_)) == IF r.ok THEN F(r) ELSE r

\* SyntaxError(f"Expected {token_type}, got {tok.type} ({tok.value!r}) at line
\* {tok.line}, col {tok.col}")
SyntaxError(token_type, tok) ==
    [kind |-> "SyntaxError", expected |-> token_type, actual |-> tok.type,
     text |-> tok.value, line |-> tok.line, col |-> tok.col]

Parser_peek(toks, p, offset) ==
    IF p + offset >= Len(toks) THEN toks[Len(toks)] ELSE toks[p + offset + 1]

\* expect without its check of the token type
expect_lenient(toks, p, token_type) ==
    Ok(Parser_peek(toks, p, 0), p + 1)

expect(toks, p, token_type) ==
    LET tok == Parser_peek(toks, p, 0)
    IN  IF tok.type # token_type
        THEN Raise(SyntaxError(token_type, tok), p + 1)
        ELSE Ok(tok, p + 1)

RECURSIVE skip_newlines(_, _)
skip_newlines(toks, p) ==
    IF Parser_peek(toks, p, 0).type = "NEWLINE" THEN skip_newlines(toks, p + 1) ELSE p

\* str.split("_")
RECURSIVE split_underscore(_, _, _)
split_underscore(s, i, cur) ==
    IF i > Len(s) THEN <<cur>>
    ELSE IF s[i] = "_" THEN <<cur>> \o split_underscore(s, i + 1, <<>>)
    ELSE split_underscore(s, i + 1, Append(cur, s[i]))

\* the index set with the letter n added
valid_indices_n == {<<"i">>, <<"j">>, <<"k">>, <<"l">>, <<"m">>, <<"n">>, <<"0">>, <<"1">>, <<"2">>, <<"3">>, <<"4">>}

valid_indices == {<<"i">>, <<"j">>, <<"k">>, <<"l">>, <<"m">>, <<"0">>, <<"1">>, <<"2">>, <<"3">>, <<"4">>}

\* for idx in parts[1:]: base = IndexExpr(base, VarExpr(idx))
RECURSIVE subscript_chain(_, _, _)
subscript_chain(base, parts, i) ==
    IF i > Len(parts) THEN base
    ELSE subscript_chain(IndexExpr(base, VarExpr(parts[i])), parts, i + 1)

parse_type(toks, p) ==
    LET t == Parser_peek(toks, p, 0).type
        base == IF t = "REAL" THEN <<cpReal>> ELSE <<cpInt>>
    IN  IF t \notin {"REAL", "INT"}
        THEN [type_str |-> <<"s", "c", "a", "l", "a", "r">>, pos |-> p]
        ELSE IF Parser_peek(toks, p + 1, 0).type = "SUPERSCRIPT"
        THEN [type_str |-> base \o Parser_peek(toks, p + 1, 0).value, pos |-> p + 2]
        ELSE [type_str |-> base, pos |-> p + 1]

\* dict: types[name] = type_str
dict_set(types, name, type_str) ==
    [n \in (DOMAIN types) \cup {name} |-> IF n = name THEN type_str ELSE types[n]]

dict_get(types, name, default) ==
    IF name \in DOMAIN types THEN types[name] ELSE default

empty_dict == [n \in {} |-> <<>>]

\* the while True loop of parse_where_block; yields [types, pos]
RECURSIVE parse_where_block(_, _, _)

\* a where block whose rewind goes back two positions
parse_where_block_back2(toks, p0, types) ==
    LET p == skip_newlines(toks, p0)
        tok == Parser_peek(toks, p, 0)
    IN  IF tok.type = "IDENT" /\ Parser_peek(toks, p, 1).type = "LPAREN"
        THEN [types |-> types, pos |-> p]
        ELSE IF tok.type \notin {"IDENT", "THETA"}
        THEN [types |-> types, pos |-> p]
        ELSE LET name == IF tok.type = "IDENT" THEN tok.value ELSE <<"a">>
             IN  IF Parser_peek(toks, p + 1, 0).type # "IN"
                 THEN [types |-> types, pos |-> (p + 1) - 2]
                 ELSE LET ty == parse_type(toks, p + 2)
                      IN  parse_where_block(toks, ty.pos, dict_set(types, name, ty.type_str))

parse_where_block(toks, p0, types) ==
    LET p == skip_newlines(toks, p0)
        tok == Parser_peek(toks, p, 0)
    IN  IF tok.type = "IDENT" /\ Parser_peek(toks, p, 1).type = "LPAREN"
        THEN [types |-> types, pos |-> p]
        ELSE IF tok.type \notin {"IDENT", "THETA"}
        THEN [types |-> types, pos |-> p]
        ELSE LET name == IF tok.type = "IDENT" THEN tok.value ELSE <<"a">>
             IN  IF Parser_peek(toks, p + 1, 0).type # "IN"
                 THEN [types |-> types, pos |-> (p + 1) - 1]
                 ELSE LET ty == parse_type(toks, p + 2)
                      IN  parse_where_block(toks, ty.pos, dict_set(types, name, ty.type_str))

\* the VarExpr case of infer_return_type, on the type looked up in types
infer_var_type(var_type) ==
    IF var_type \in {<<cpReal, cpSup4>>, <<cpReal, cpSup3>>} THEN <<"v", "e", "c", "4">>
    ELSE IF var_type \in {<<cpReal, cpSup4, cpSupX, cpSup4>>} THEN <<"m", "a", "t", "4">>
    ELSE <<"s", "c", "a", "l", "a", "r">>

startswith(s, prefix) ==
    Len(s) >= Len(prefix) /\ SubSeq(s, 1, Len(prefix)) = prefix

\* `sub in s` for strings
contains(s, sub) ==
    \E i \in 1..(Len(s) - Len(sub) + 1) : SubSeq(s, i, i + Len(sub) - 1) = sub

RECURSIVE infer_return_type(_, _)
infer_return_type(body, types) ==
    IF body.tag = "MatrixExpr" THEN <<"m", "a", "t", "4">>
    ELSE IF body.tag \in {"VectorExpr", "ComprehensionExpr"} THEN <<"v", "e", "c", "4">>
    ELSE IF body.tag = "SumExpr" THEN <<"s", "c", "a", "l", "a", "r">>
    ELSE IF body.tag = "NormExpr" THEN <<"s", "c", "a", "l", "a", "r">>
    ELSE IF body.tag = "IfExpr"
    THEN LET then_type == infer_return_type(body.then_expr, types)
         IN  IF then_type # <<"s", "c", "a", "l", "a", "r">> THEN then_type
             ELSE infer_return_type(body.else_expr, types)
    ELSE IF body.tag = "LetExpr" THEN infer_return_type(body.body, types)
    ELSE IF body.tag = "VarExpr"
    THEN infer_var_type(dict_get(types, body.name, <<"s", "c", "a", "l", "a", "r">>))
    ELSE IF body.tag = "CallExpr"
    THEN IF body.func \in {<<"v", "e", "c", "_", "d", "o", "t">>, <<"v", "e", "c", "_", "l", "e", "n", "g", "t", "h">>, <<"v", "e", "c", "_", "l", "e", "n", "g", "t", "h", "_", "s", "q">>} THEN <<"s", "c", "a", "l", "a", "r">>
         ELSE IF startswith(body.func, <<"m", "a", "t", "_">>)
         THEN (IF contains(body.func, <<"v", "e", "c">>) THEN <<"v", "e", "c", "4">> ELSE <<"m", "a", "t", "4">>)
         ELSE IF startswith(body.func, <<"v", "e", "c", "_">>) THEN <<"v", "e", "c", "4">>
         ELSE <<"s", "c", "a", "l", "a", "r">>
    ELSE <<"s", "c", "a", "l", "a", "r">>

\* parse_range: yields [range_expr, pos]
parse_range(toks, p) ==
    LET tok == Parser_peek(toks, p, 0)
        nxt == Parser_peek(toks, p + 1, 0)
    IN  IF nxt.type = "IDENT" /\ nxt.value = <<".", ".">>
        THEN [range_expr |-> tok.value \o <<".", ".">> \o Parser_peek(toks, p + 2, 0).value,
              pos |-> p + 3]
        ELSE [range_expr |-> tok.value, pos |-> p + 1]

\* parse_param_list: the loop over ", name"; yields [params, pos]
param_name(tok) == IF tok.type = "THETA" THEN <<"a">> ELSE tok.value

RECURSIVE parse_param_rest(_, _, _)
parse_param_rest(toks, p, params) ==
    IF Parser_peek(toks, p, 0).type = "COMMA"
    THEN parse_param_rest(toks, p + 2, Append(params, param_name(Parser_peek(toks, p + 1, 0))))
    ELSE [params |-> params, pos |-> p]

parse_param_list(toks, p) ==
    IF Parser_peek(toks, p, 0).type = "RPAREN"
    THEN [params |-> <<>>, pos |-> p]
    ELSE parse_param_rest(toks, p + 1, <<param_name(Parser_peek(toks, p, 0))>>)

BuiltinKinds == {"SIN", "COS", "TAN", "ABS", "FLOOR", "MIN", "MAX", "CLAMP"}

RECURSIVE parse_expr(_, _)
RECURSIVE parse_let(_, _)
RECURSIVE parse_let_rest(_, _, _)
RECURSIVE parse_conditional(_, _)
RECURSIVE parse_comparison(_, _)
RECURSIVE parse_comparison_rest(_, _, _)
RECURSIVE parse_additive(_, _)
RECURSIVE parse_additive_rest(_, _, _)
RECURSIVE parse_multiplicative(_, _)
RECURSIVE parse_multiplicative_rest(_, _, _)
RECURSIVE parse_unary(_, _)
RECURSIVE parse_postfix(_, _)
RECURSIVE parse_postfix_rest(_, _, _)
RECURSIVE parse_primary(_, _)
RECURSIVE parse_arg_list(_, _)
RECURSIVE parse_arg_rest(_, _, _)
RECURSIVE parse_vector_or_matrix(_, _)
RECURSIVE parse_matrix_rows(_, _, _)
RECURSIVE parse_elements_rest(_, _, _)

parse_expr(toks, p) == parse_let(toks, skip_newlines(toks, p))

\* the loop over the bindings without the optional let after the semicolon
parse_let_rest_strict(toks, p, bindings) ==
    IF Parser_peek(toks, p, 0).type # "SEMICOLON" THEN Ok(bindings, p)
    ELSE LET p1 == skip_newlines(toks, p + 1)
             name == Parser_peek(toks, p1, 0).value
         IN  Then(expect(toks, p1 + 1, "EQ"), LAMBDA eq :
                 Then(parse_conditional(toks, eq.pos), LAMBDA value :
                     parse_let_rest(toks, value.pos, Append(bindings, <<name, value.node>>))))

\* while self.peek().type == SEMICOLON: ... bindings.append((name, value))
parse_let_rest(toks, p, bindings) ==
    IF Parser_peek(toks, p, 0).type # "SEMICOLON" THEN Ok(bindings, p)
    ELSE LET p1 == skip_newlines(toks, p + 1)
             p2 == IF Parser_peek(toks, p1, 0).type = "LET" THEN p1 + 1 ELSE p1
             name == Parser_peek(toks, p2, 0).value
         IN  Then(expect(toks, p2 + 1, "EQ"), LAMBDA eq :
                 Then(parse_conditional(toks, eq.pos), LAMBDA value :
                     parse_let_rest(toks, value.pos, Append(bindings, <<name, value.node>>))))

parse_let(toks, p0) ==
    LET p == skip_newlines(toks, p0)
    IN  IF Parser_peek(toks, p, 0).type # "LET" THEN parse_conditional(toks, p)
        ELSE LET name == Parser_peek(toks, p + 1, 0).value
             IN  Then(expect(toks, p + 2, "EQ"), LAMBDA eq :
                     Then(parse_conditional(toks, eq.pos), LAMBDA value :
                         Then(parse_let_rest(toks, value.pos, <<<<name, value.node>>>>), LAMBDA bs :
                             Then(IF Parser_peek(toks, bs.pos, 0).type = "IN_KW"
                                         THEN parse_expr(toks, bs.pos + 1)
                                         ELSE parse_expr(toks, bs.pos), LAMBDA body :
                                 Ok(LetExpr(bs.node, body.node), body.pos)))))

parse_conditional(toks, p) ==
    IF Parser_peek(toks, p, 0).type # "IF" THEN parse_comparison(toks, p)
    ELSE Then(parse_comparison(toks, p + 1), LAMBDA cond :
             Then(expect(toks, skip_newlines(toks, cond.pos), "THEN"), LAMBDA th :
                 Then(parse_let(toks, th.pos), LAMBDA then_expr :
                     Then(expect(toks, skip_newlines(toks, then_expr.pos), "ELSE"), LAMBDA el :
                         Then(parse_let(toks, el.pos), LAMBDA else_expr :
                             Ok(IfExpr(cond.node, then_expr.node, else_expr.node),
                                else_expr.pos))))))

parse_comparison_rest(toks, p, left) ==
    IF Parser_peek(toks, p, 0).type \notin {"LT", "GT", "LE", "GE"} THEN Ok(left, p)
    ELSE LET op == Parser_peek(toks, p, 0).value
         IN  Then(parse_additive(toks, p + 1), LAMBDA right :
                 parse_comparison_rest(toks, right.pos, BinOpExpr(op, left, right.node)))

parse_comparison(toks, p) ==
    Then(parse_additive(toks, p), LAMBDA left :
        parse_comparison_rest(toks, left.pos, left.node))

parse_additive_rest(toks, p, left) ==
    IF Parser_peek(toks, p, 0).type \notin {"PLUS", "MINUS"} THEN Ok(left, p)
    ELSE LET op == Parser_peek(toks, p, 0).value
         IN  Then(parse_multiplicative(toks, p + 1), LAMBDA right :
                 parse_additive_rest(toks, right.pos, BinOpExpr(op, left, right.node)))

parse_additive(toks, p) ==
    Then(parse_multiplicative(toks, p), LAMBDA left :
        parse_additive_rest(toks, left.pos, left.node))

parse_multiplicative_rest(toks, p, left) ==
    LET op_tok == Parser_peek(toks, p, 0)
    IN  IF op_tok.type \notin {"STAR", "SLASH", "DOT", "CROSS"} THEN Ok(left, p)
        ELSE IF op_tok.type = "DOT" /\ Parser_peek(toks, p, 1).type = "IDENT" THEN Ok(left, p)
        ELSE LET op == IF op_tok.type = "DOT" THEN <<"d", "o", "t">>
                       ELSE IF op_tok.type = "CROSS" THEN <<"c", "r", "o", "s", "s">>
                       ELSE op_tok.value
             IN  Then(parse_unary(toks, p + 1), LAMBDA right :
                     parse_multiplicative_rest(toks, right.pos, BinOpExpr(op, left, right.node)))

parse_multiplicative(toks, p) ==
    Then(parse_unary(toks, p), LAMBDA left :
        parse_multiplicative_rest(toks, left.pos, left.node))

parse_unary(toks, p) ==
    LET t == Parser_peek(toks, p, 0).type
    IN  IF t = "MINUS"
        THEN Then(parse_unary(toks, p + 1), LAMBDA operand :
                 Ok(UnaryExpr(<<"-">>, operand.node), operand.pos))
        ELSE IF t = "SQRT"
        THEN IF Parser_peek(toks, p + 1, 0).type = "LPAREN"
             THEN Then(parse_expr(toks, p + 2), LAMBDA operand :
                      Then(expect(toks, operand.pos, "RPAREN"), LAMBDA rp :
                          Ok(CallExpr(<<"s", "q", "r", "t">>, <<operand.node>>), rp.pos)))
             ELSE Then(parse_primary(toks, p + 1), LAMBDA operand :
                      Ok(CallExpr(<<"s", "q", "r", "t">>, <<operand.node>>), operand.pos))
        ELSE parse_postfix(toks, p)

parse_postfix_rest(toks, p, left) ==
    LET t == Parser_peek(toks, p, 0).type
    IN  IF t = "LBRACKET"
        THEN Then(parse_expr(toks, p + 1), LAMBDA index :
                 Then(expect(toks, index.pos, "RBRACKET"), LAMBDA rb :
                     IF Parser_peek(toks, rb.pos, 0).type = "LBRACKET"
                     THEN Then(parse_expr(toks, rb.pos + 1), LAMBDA index2 :
                              Then(expect(toks, index2.pos, "RBRACKET"), LAMBDA rb2 :
                                  parse_postfix_rest(toks, rb2.pos,
                                      MatrixIndexExpr(left, index.node, index2.node))))
                     ELSE parse_postfix_rest(toks, rb.pos, IndexExpr(left, index.node))))
        ELSE IF t = "DOT" /\ Parser_peek(toks, p, 1).type = "IDENT"
        THEN parse_postfix_rest(toks, p + 2, DotAccessExpr(left, Parser_peek(toks, p + 1, 0).value))
        ELSE IF t = "TRANSPOSE"
        THEN parse_postfix_rest(toks, p + 1, UnaryExpr(<<"T">>, left))
        ELSE Ok(left, p)

parse_postfix(toks, p) ==
    Then(parse_primary(toks, p), LAMBDA left :
        parse_postfix_rest(toks, left.pos, left.node))

parse_arg_rest(toks, p, args) ==
    IF Parser_peek(toks, p, 0).type # "COMMA" THEN Ok(args, p)
    ELSE Then(parse_expr(toks, p + 1), LAMBDA a :
             parse_arg_rest(toks, a.pos, Append(args, a.node)))

parse_arg_list(toks, p) ==
    IF Parser_peek(toks, p, 0).type = "RPAREN" THEN Ok(<<>>, p)
    ELSE Then(parse_expr(toks, p), LAMBDA a :
             parse_arg_rest(toks, a.pos, <<a.node>>))

\* the identifier case of parse_primary once a function call is excluded
parse_identifier(name) ==
    LET parts == split_underscore(name, 1, <<>>)
    IN  IF "_" \in {name[i] : i \in 1..Len(name)}
           /\ Len(parts[1]) = 1
           /\ \A i \in 2..Len(parts) : parts[i] \in valid_indices
        THEN subscript_chain(VarExpr(parts[1]), parts, 2)
        ELSE VarExpr(name)

\* a Sum whose body takes the additive terms that follow as well
parse_sum_body_additive(toks, p) == parse_additive(toks, p)

\* body = self.parse_multiplicative() of the Sum case of parse_primary
parse_sum_body(toks, p) == parse_multiplicative(toks, p)

parse_primary(toks, p) ==
    LET tok == Parser_peek(toks, p, 0)
    IN  CASE tok.type = "NUMBER" -> Ok(NumExpr(tok.value), p + 1)
        [] tok.type = "SUM" ->
             Then(expect(toks, p + 1, "LPAREN"), LAMBDA lp :
                 LET var == Parser_peek(toks, lp.pos, 0).value
                 IN  Then(expect(toks, lp.pos + 1, "IN"), LAMBDA inn :
                         LET rng == parse_range(toks, inn.pos)
                         IN  Then(expect(toks, rng.pos, "RPAREN"), LAMBDA rp :
                                 Then(parse_sum_body(toks, rp.pos), LAMBDA body :
                                     Ok(SumExpr(var, rng.range_expr, body.node), body.pos)))))
        [] tok.type = "NORM_OPEN" ->
             Then(parse_expr(toks, p + 1), LAMBDA operand :
                 Then(expect(toks, operand.pos, "NORM_OPEN"), LAMBDA cl :
                     Ok(NormExpr(operand.node), cl.pos)))
        [] tok.type = "PIPE" ->
             Then(parse_expr(toks, p + 1), LAMBDA operand :
                 Then(expect(toks, operand.pos, "PIPE"), LAMBDA cl :
                     Ok(CallExpr(<<"a", "b", "s">>, <<operand.node>>), cl.pos)))
        [] tok.type = "LBRACKET" -> parse_vector_or_matrix(toks, p)
        [] tok.type = "LPAREN" ->
             Then(parse_expr(toks, p + 1), LAMBDA e :
                 Then(expect(toks, e.pos, "RPAREN"), LAMBDA rp :
                     Ok(e.node, rp.pos)))
        [] tok.type \in BuiltinKinds ->
             LET func == lower(tok.value)
             IN  IF Parser_peek(toks, p + 1, 0).type = "LPAREN"
                 THEN Then(parse_arg_list(toks, p + 2), LAMBDA args :
                          Then(expect(toks, args.pos, "RPAREN"), LAMBDA rp :
                              Ok(CallExpr(func, args.node), rp.pos)))
                 ELSE Then(parse_unary(toks, p + 1), LAMBDA arg :
                          Ok(CallExpr(func, <<arg.node>>), arg.pos))
        [] tok.type = "PI" -> Ok(VarExpr(<<"P", "I">>), p + 1)
        [] tok.type = "EPSILON" -> Ok(VarExpr(<<"E", "P", "S", "I", "L", "O", "N">>), p + 1)
        [] tok.type = "THETA" -> Ok(VarExpr(<<"a">>), p + 1)
        [] tok.type = "DELTA" ->
             IF Parser_peek(toks, p + 1, 0).type = "SUBSCRIPT"
             THEN IF Parser_peek(toks, p + 2, 0).type = "SUBSCRIPT"
                  THEN Ok(CallExpr(<<"k", "r", "o", "n", "e", "c", "k", "e", "r">>, <<VarExpr(Parser_peek(toks, p + 1, 0).value),
                                                  VarExpr(Parser_peek(toks, p + 2, 0).value)>>), p + 3)
                  ELSE Ok(VarExpr(<<"d", "e", "l", "t", "a">>), p + 2)
             ELSE Ok(VarExpr(<<"d", "e", "l", "t", "a">>), p + 1)
        [] tok.type = "IDENT" ->
             IF Parser_peek(toks, p + 1, 0).type = "LPAREN"
             THEN Then(parse_arg_list(toks, p + 2), LAMBDA args :
                      Then(expect(toks, args.pos, "RPAREN"), LAMBDA rp :
                          Ok(CallExpr(tok.value, args.node), rp.pos)))
             ELSE Ok(parse_identifier(tok.value), p + 1)
        [] OTHER -> Ok(VarExpr(<<"_", "u", "n", "k", "n", "o", "w", "n", "_">>), p + 1)

\* while self.peek().type == COMMA: ... elements.append(self.parse_expr())
\* (the row loop of a matrix literal and the element loop of a vector literal)
parse_elements_rest(toks, p, elements) ==
    IF Parser_peek(toks, p, 0).type # "COMMA" THEN Ok(elements, p)
    ELSE IF Parser_peek(toks, p + 1, 0).type = "RBRACKET" THEN Ok(elements, p + 1)
    ELSE Then(parse_expr(toks, p + 1), LAMBDA e :
             parse_elements_rest(toks, e.pos, Append(elements, e.node)))

\* while self.peek().type == LBRACKET: ... rows.append(row)
parse_matrix_rows(toks, p, rows) ==
    IF Parser_peek(toks, p, 0).type # "LBRACKET" THEN Ok(rows, p)
    ELSE Then(parse_expr(toks, p + 1), LAMBDA first :
             Then(parse_elements_rest(toks, first.pos, <<first.node>>), LAMBDA row :
                 Then(expect(toks, row.pos, "RBRACKET"), LAMBDA rb :
                     LET p1 == IF Parser_peek(toks, rb.pos, 0).type = "COMMA"
                               THEN rb.pos + 1 ELSE rb.pos
                     IN  IF Parser_peek(toks, p1, 0).type = "RBRACKET"
                         THEN Ok(Append(rows, row.node), p1)
                         ELSE parse_matrix_rows(toks, p1, Append(rows, row.node)))))

\* [e.elements if isinstance(e, VectorExpr) else [e] for e in elements]
rows_of(elements) ==
    [i \in 1..Len(elements) |->
        IF elements[i].tag = "VectorExpr" THEN elements[i].elements ELSE <<elements[i]>>]

parse_vector_or_matrix(toks, p) ==
    Then(expect(toks, p, "LBRACKET"), LAMBDA lb :
        IF Parser_peek(toks, lb.pos, 0).type = "LBRACKET"
   THEN Then(parse_matrix_rows(toks, lb.pos, <<>>), LAMBDA rows :
            Then(expect(toks, rows.pos, "RBRACKET"), LAMBDA rb :
                Ok(MatrixExpr(rows.node), rb.pos)))
   ELSE Then(parse_expr(toks, lb.pos), LAMBDA first :
            IF Parser_peek(toks, first.pos, 0).type = "PIPE"
       THEN LET var == Parser_peek(toks, first.pos + 1, 0).value
            IN  Then(expect(toks, first.pos + 2, "IN"), LAMBDA inn :
                    LET rng == parse_range(toks, inn.pos)
                    IN  Then(expect(toks, rng.pos, "RBRACKET"), LAMBDA rb :
                            Ok(ComprehensionExpr(first.node, var, rng.range_expr), rb.pos)))
       ELSE Then(parse_elements_rest(toks, first.pos, <<first.node>>), LAMBDA elements :
                Then(expect(toks, elements.pos, "RBRACKET"), LAMBDA rb :
                    IF first.node.tag = "VectorExpr"
               THEN Ok(MatrixExpr(rows_of(elements.node)), rb.pos)
               ELSE Ok(VectorExpr(elements.node), rb.pos)))))

\* typed_params.append(Param(p, param_types.get(p, "scalar")))
typed_params(params, param_types) ==
    [i \in 1..Len(params) |-> Param(params[i], dict_get(param_types, params[i], <<"s", "c", "a", "l", "a", "r">>))]

\* parse_func: node is a FuncDef, or None when the leading token is skipped
parse_func(toks, p0) ==
    LET p == skip_newlines(toks, p0)
    IN  IF Parser_peek(toks, p, 0).type # "IDENT" THEN Ok(None, p + 1)
        ELSE LET name == Parser_peek(toks, p, 0).value
             IN  Then(expect(toks, p + 1, "LPAREN"), LAMBDA lp :
                     LET ps == parse_param_list(toks, lp.pos)
                     IN  Then(expect(toks, ps.pos, "RPAREN"), LAMBDA rp :
                             Then(expect(toks, rp.pos, "EQ"), LAMBDA eq :
                                 Then(parse_expr(toks, eq.pos), LAMBDA body :
                                     LET p1 == skip_newlines(toks, body.pos)
                                         wb == IF Parser_peek(toks, p1, 0).type = "WHERE"
                                               THEN parse_where_block(toks, skip_newlines(toks, p1 + 1), empty_dict)
                                               ELSE [types |-> empty_dict, pos |-> p1]
                                     IN  Ok(FuncDef(name, typed_params(ps.params, wb.types),
                                                    infer_return_type(body.node, wb.types),
                                                    body.node),
                                            wb.pos)))))

\* a loop that keeps only the first definition of a name
RECURSIVE parse_loop_distinct(_, _, _)
parse_loop_distinct(toks, p0, fs) ==
    IF Parser_peek(toks, p0, 0).type = "EOF" THEN Ok(fs, p0)
    ELSE LET p == skip_newlines(toks, p0)
         IN  IF Parser_peek(toks, p, 0).type = "EOF" THEN Ok(fs, p)
             ELSE Then(parse_func(toks, p), LAMBDA func :
                      parse_loop_distinct(toks, func.pos,
                                 IF func.node # None /\ \A i \in 1..Len(fs) : fs[i].name # func.node.name
                                 THEN Append(fs, func.node) ELSE fs))

\* Parser.parse: the while loop; node is the list funcs
RECURSIVE parse_loop(_, _, _)
parse_loop(toks, p0, fs) ==
    IF Parser_peek(toks, p0, 0).type = "EOF" THEN Ok(fs, p0)
    ELSE LET p == skip_newlines(toks, p0)
         IN  IF Parser_peek(toks, p, 0).type = "EOF" THEN Ok(fs, p)
             ELSE Then(parse_func(toks, p), LAMBDA func :
                      parse_loop(toks, func.pos,
                                 IF func.node # None THEN Append(fs, func.node) ELSE fs))

parse(toks) == parse_loop(toks, 0, <<>>)

----------------------------------------------------------------------------
(* Text helpers (str and re of the Python runtime) *)

\* the concatenation of pieces[lo], ..., pieces[hi]
RECURSIVE concat_range(_, _, _)
concat_range(pieces, lo, hi) ==
    IF lo > hi THEN <<>>
    ELSE IF lo = hi THEN pieces[lo]
    ELSE concat_range(pieces, lo, (lo + hi) \div 2)
         \o concat_range(pieces, (lo + hi) \div 2 + 1, hi)

\* sep.join(parts)
join(sep, parts) ==
    concat_range([k \in 1..(2 * Len(parts) - 1) |->
                     IF k % 2 = 1 THEN parts[(k + 1) \div 2] ELSE sep],
                 1, 2 * Len(parts) - 1)

starts_at(code, i, pat) ==
    i + Len(pat) - 1 <= Len(code) /\ SubSeq(code, i, i + Len(pat) - 1) = pat

\* \w of the re module
is_word(ch) == isalnum(ch) \/ ch = "_"

\* \b at the gap before code[i] (i in 1..Len(code)+1)
word_boundary(code, i) ==
    LET before == i > 1 /\ is_word(code[i - 1])
        after == i <= Len(code) /\ is_word(code[i])
    IN  before # after

\* match_at without the lookbehind of the "vec" pattern
match_at_no_lookbehind(code, i, pat, kind) ==
    /\ starts_at(code, i, pat)
    /\ kind = "word" => word_boundary(code, i) /\ word_boundary(code, i + Len(pat))
    /\ kind \in {"not_open", "vec"} =>
          ~(i + Len(pat) <= Len(code) /\ code[i + Len(pat)] = "[")

\* re.sub(pattern, repl, code) for a pattern that is the literal text pat with
\* the zero-width assertions named by kind around it:
\*   "word"     \b pat \b
\*   "not_open" pat (?!\[)
\*   "vec"      (?<!\]) pat (?!\[)
\*   "plain"    pat
match_at(code, i, pat, kind) ==
    /\ starts_at(code, i, pat)
    /\ kind = "word" => word_boundary(code, i) /\ word_boundary(code, i + Len(pat))
    /\ kind \in {"not_open", "vec"} =>
          ~(i + Len(pat) <= Len(code) /\ code[i + Len(pat)] = "[")
    /\ kind = "vec" => ~(i > 1 /\ code[i - 1] = "]")

\* the match at code[i] is one that re.sub replaces: the matches are taken
\* from left to right and a match that begins inside a taken one is passed over
RECURSIVE taken(_, _, _, _)
taken(code, i, pat, kind) ==
    /\ match_at(code, i, pat, kind)
    /\ \A j \in (i - Len(pat) + 1)..(i - 1) : j >= 1 => ~taken(code, j, pat, kind)

re_sub(pat, repl, code, kind) ==
    concat_range([i \in 1..Len(code) |->
                     IF taken(code, i, pat, kind) THEN repl
                     ELSE IF \E j \in (i - Len(pat) + 1)..(i - 1) :
                                j >= 1 /\ taken(code, j, pat, kind)
                     THEN <<>>
                     ELSE <<code[i]>>],
                 1, Len(code))

\* length of the run of \d starting at code[i]
digit_run(code, i) ==
    Cardinality({n \in i..Len(code) : \A k \in i..n : code[k] \in AsciiDigit})

\* length of the match of \.m\[(\d+)\.0f\] at code[i], 0 when there is none
matrix_index_at(code, i) ==
    LET n == digit_run(code, i + 3)
    IN  IF starts_at(code, i, <<".", "m", "[">>) /\ n > 0 /\ starts_at(code, i + 3 + n, <<".", "0", "f", "]">>)
        THEN 3 + n + 4 ELSE 0

\* re.sub(r"\.m\[(\d+)\.0f\]", r".m[\1]", code)
clean_matrix_index(code) ==
    concat_range([i \in 1..Len(code) |->
                     IF matrix_index_at(code, i) > 0
                     THEN SubSeq(code, i, i + matrix_index_at(code, i) - 5) \o <<"]">>
                     ELSE IF \E j \in 1..(i - 1) : j + matrix_index_at(code, j) > i
                     THEN <<>>
                     ELSE <<code[i]>>],
                 1, Len(code))

\* re.sub(r"\.0f<<",", " ">>", s)
strip_0f(s) ==
    IF Len(s) >= 3 /\ SubSeq(s, Len(s) - 2, Len(s)) = <<".", "0", "f">>
    THEN SubSeq(s, 1, Len(s) - 3)
    ELSE s

\* s.split(".")[0]
RECURSIVE before_dot(_, _)
before_dot(s, i) ==
    IF i > Len(s) \/ s[i] = "." THEN SubSeq(s, 1, i - 1) ELSE before_dot(s, i + 1)

\* s.split("..") : the list of parts
RECURSIVE split_dotdot(_, _, _)
split_dotdot(s, i, cur) ==
    IF i > Len(s) THEN <<cur>>
    ELSE IF starts_at(s, i, <<".", ".">>) THEN <<cur>> \o split_dotdot(s, i + 2, <<>>)
    ELSE split_dotdot(s, i + 1, Append(cur, s[i]))

digit_value(ch) ==
    CASE ch = "0" -> 0 [] ch = "1" -> 1 [] ch = "2" -> 2 [] ch = "3" -> 3
      [] ch = "4" -> 4 [] ch = "5" -> 5 [] ch = "6" -> 6 [] ch = "7" -> 7
      [] ch = "8" -> 8 [] ch = "9" -> 9

digit_char(d) == <<"0", "1", "2", "3", "4", "5", "6", "7", "8", "9">>[d + 1]

\* int(s) accepts s here when it is a non-empty run of decimal digits
int_ok(s) == Len(s) > 0 /\ \A i \in 1..Len(s) : s[i] \in AsciiDigit

RECURSIVE int_of(_)
int_of(s) ==
    IF Len(s) = 0 THEN 0
    ELSE 10 * int_of(SubSeq(s, 1, Len(s) - 1)) + digit_value(s[Len(s)])

\* str(i), i >= 0
RECURSIVE str_of(_)
str_of(i) == IF i < 10 THEN <<digit_char(i)>> ELSE str_of(i \div 10) \o <<digit_char(i % 10)>>

----------------------------------------------------------------------------
(* Code generator.  An emitting routine takes the generator's mode, suffix  *)
(* and emit_int_context and yields [ok, code, ctx, err]: the text returned  *)
(* and emit_int_context on return, or the exception raised.                 *)

FLOAT == "float"
FIXED == "fixed"

Emitted(code, ctx) == [ok |-> TRUE, code |-> code, ctx |-> ctx, err |-> NoError]
EmitRaise(kind, ctx) == [ok |-> FALSE, code |-> <<>>, ctx |-> ctx, err |-> [kind |-> kind]]

c_type(type_str) ==
    IF type_str \in {<<cpReal>>, <<"s", "c", "a", "l", "a", "r">>, <<cpReal, cpSup1>>} THEN <<"f", "l", "o", "a", "t">>
    ELSE IF type_str \in {<<cpReal, cpSup3>>, <<cpReal, cpSup4>>, <<cpReal, "4">>, <<"v", "e", "c", "4">>, <<"v", "e", "c", "3">>}
    THEN <<"b", "3", "d", "_", "v", "e", "c", "_", "t">>
    ELSE IF type_str \in {<<cpReal, cpSup4, cpSupX, cpSup4>>, <<cpReal, "4", "x", "4">>, <<"m", "a", "t", "4">>}
    THEN <<"b", "3", "d", "_", "m", "a", "t", "_", "t">>
    ELSE IF type_str \in {<<cpInt>>, <<"i", "n", "t">>} THEN <<"i", "n", "t">>
    ELSE <<"f", "l", "o", "a", "t">>

RECURSIVE has_nested_conditional_lets(_)
has_nested_conditional_lets(e) ==
    IF e.tag = "LetExpr" THEN has_nested_conditional_lets(e.body)
    ELSE IF e.tag = "IfExpr"
    THEN LET then_has == e.then_expr.tag = "LetExpr" \/ has_nested_conditional_lets(e.then_expr)
             else_has == e.else_expr.tag = "LetExpr" \/ has_nested_conditional_lets(e.else_expr)
         IN  then_has \/ else_has
    ELSE FALSE

infer_c_type(e) ==
    IF e.tag = "NormExpr" THEN <<"f", "l", "o", "a", "t">>
    ELSE IF e.tag = "CallExpr" /\ e.func \in {<<"v", "e", "c", "_", "d", "o", "t">>, <<"v", "e", "c", "_", "l", "e", "n", "g", "t", "h">>, <<"v", "e", "c", "_", "l", "e", "n", "g", "t", "h", "_", "s", "q">>, <<"s", "q", "r", "t">>}
    THEN <<"f", "l", "o", "a", "t">>
    ELSE IF e.tag = "CallExpr" /\ e.func = <<"m", "a", "t", "_", "r", "o", "w", "3">> THEN <<"b", "3", "d", "_", "v", "e", "c", "_", "t">>
    ELSE IF e.tag = "CallExpr" /\ startswith(e.func, <<"v", "e", "c", "_">>) THEN <<"b", "3", "d", "_", "v", "e", "c", "_", "t">>
    ELSE IF e.tag = "CallExpr" /\ startswith(e.func, <<"m", "a", "t", "_">>) THEN <<"b", "3", "d", "_", "m", "a", "t", "_", "t">>
    ELSE IF e.tag \in {"VectorExpr", "ComprehensionExpr"} THEN <<"b", "3", "d", "_", "v", "e", "c", "_", "t">>
    ELSE IF e.tag = "MatrixExpr" THEN <<"b", "3", "d", "_", "m", "a", "t", "_", "t">>
    ELSE <<"f", "l", "o", "a", "t">>

emit_var(name, m, sfx) ==
    IF name = <<"P", "I">> THEN (IF m = FLOAT THEN <<"B", "3", "D", "_", "P", "I">> ELSE <<"B", "3", "D", "_", "F", "P", "_", "P", "I">>)
    ELSE IF name = <<"E", "P", "S", "I", "L", "O", "N">> THEN (IF m = FLOAT THEN <<"B", "3", "D", "_", "E", "P", "S", "I", "L", "O", "N">> ELSE <<"B", "3", "D", "_", "F", "P", "_", "E", "P", "S", "I", "L", "O", "N">>)
    ELSE IF name = <<"Z", "E", "R", "O">> THEN (IF m = FLOAT THEN <<"0", ".", "0", "f">> ELSE <<"0">>)
    ELSE IF name = <<"O", "N", "E">> THEN (IF m = FLOAT THEN <<"1", ".", "0", "f">> ELSE <<"B", "3", "D", "_", "F", "P", "_", "O", "N", "E">>)
    ELSE IF name = <<"I">> THEN <<"b", "3", "d", "_", "m", "a", "t", "_", "i", "d", "e", "n", "t">> \o sfx \o <<"(", ")">>
    ELSE name

infix(op, left, right) == <<"(", "(">> \o left \o <<")", " ">> \o op \o <<" ", "(">> \o right \o <<")", ")">>

emit_binop(op, left, right, m, sfx) ==
    IF m = FLOAT
    THEN IF op = <<"d", "o", "t">> THEN <<"b", "3", "d", "_", "v", "e", "c", "_", "d", "o", "t">> \o sfx \o <<"(">> \o left \o <<",", " ">> \o right \o <<")">>
         ELSE IF op = <<"c", "r", "o", "s", "s">> THEN <<"b", "3", "d", "_", "v", "e", "c", "_", "c", "r", "o", "s", "s">> \o sfx \o <<"(">> \o left \o <<",", " ">> \o right \o <<")">>
         ELSE infix(op, left, right)
    ELSE IF op = <<"+">> THEN <<"B", "3", "D", "_", "F", "P", "_", "A", "D", "D", "(">> \o left \o <<",", " ">> \o right \o <<")">>
    ELSE IF op = <<"-">> THEN <<"B", "3", "D", "_", "F", "P", "_", "S", "U", "B", "(">> \o left \o <<",", " ">> \o right \o <<")">>
    ELSE IF op = <<"*">> THEN <<"B", "3", "D", "_", "F", "P", "_", "M", "U", "L", "(">> \o left \o <<",", " ">> \o right \o <<")">>
    ELSE IF op = <<"/">> THEN <<"B", "3", "D", "_", "F", "P", "_", "D", "I", "V", "(">> \o left \o <<",", " ">> \o right \o <<")">>
    ELSE IF op = <<"d", "o", "t">> THEN <<"b", "3", "d", "_", "v", "e", "c", "_", "d", "o", "t">> \o sfx \o <<"(">> \o left \o <<",", " ">> \o right \o <<")">>
    ELSE IF op = <<"c", "r", "o", "s", "s">> THEN <<"b", "3", "d", "_", "v", "e", "c", "_", "c", "r", "o", "s", "s">> \o sfx \o <<"(">> \o left \o <<",", " ">> \o right \o <<")">>
    ELSE infix(op, left, right)

INT_PARAM_FUNCS(func) == IF func = <<"m", "a", "t", "_", "r", "o", "w", "3">> THEN {1} ELSE {}

\* number of arguments the lambda of a builtin indexes
builtin_arity(func) ==
    IF func \in {<<"s", "q", "r", "t">>, <<"s", "i", "n">>, <<"c", "o", "s">>, <<"t", "a", "n">>, <<"a", "b", "s">>, <<"f", "l", "o", "o", "r">>} THEN 1
    ELSE IF func \in {<<"m", "i", "n">>, <<"m", "a", "x">>, <<"k", "r", "o", "n", "e", "c", "k", "e", "r">>} THEN 2
    ELSE IF func = <<"c", "l", "a", "m", "p">> THEN 3
    ELSE 0

builtins == {<<"s", "q", "r", "t">>, <<"s", "i", "n">>, <<"c", "o", "s">>, <<"t", "a", "n">>, <<"a", "b", "s">>, <<"f", "l", "o", "o", "r">>, <<"m", "i", "n">>, <<"m", "a", "x">>,
             <<"c", "l", "a", "m", "p">>, <<"k", "r", "o", "n", "e", "c", "k", "e", "r">>}

\* emit_call; a builtin given too few arguments raises IndexError
emit_call(func, args, sfx, ctx) ==
    IF func \in builtins
    THEN IF Len(args) < builtin_arity(func) THEN EmitRaise("IndexError", ctx)
         ELSE Emitted(
            CASE func = <<"s", "q", "r", "t">> -> <<"b", "3", "d", "_", "s", "q", "r", "t", "f", "(">> \o args[1] \o <<")">>
              [] func = <<"s", "i", "n">> -> <<"b", "3", "d", "_", "s", "i", "n", "f", "(">> \o args[1] \o <<")">>
              [] func = <<"c", "o", "s">> -> <<"b", "3", "d", "_", "c", "o", "s", "f", "(">> \o args[1] \o <<")">>
              [] func = <<"t", "a", "n">> -> <<"b", "3", "d", "_", "t", "a", "n", "f", "(">> \o args[1] \o <<")">>
              [] func = <<"a", "b", "s">> -> <<"b", "3", "d", "_", "f", "a", "b", "s", "f", "(">> \o args[1] \o <<")">>
              [] func = <<"f", "l", "o", "o", "r">> -> <<"f", "l", "o", "o", "r", "f", "(">> \o args[1] \o <<")">>
              [] func = <<"m", "i", "n">> -> <<"f", "m", "i", "n", "f", "(">> \o args[1] \o <<",", " ">> \o args[2] \o <<")">>
              [] func = <<"m", "a", "x">> -> <<"f", "m", "a", "x", "f", "(">> \o args[1] \o <<",", " ">> \o args[2] \o <<")">>
              [] func = <<"c", "l", "a", "m", "p">> -> <<"f", "m", "i", "n", "f", "(", "f", "m", "a", "x", "f", "(">> \o args[1] \o <<",", " ">> \o args[2] \o <<")", ",", " ">>
                                     \o args[3] \o <<")">>
              [] func = <<"k", "r", "o", "n", "e", "c", "k", "e", "r">> -> <<"(", "(">> \o args[1] \o <<")", " ", "=", "=", " ", "(">> \o args[2]
                                         \o <<")", " ", "?", " ", "1", ".", "0", "f", " ", ":", " ", "0", ".", "0", "f", ")">>,
            ctx)
    ELSE Emitted(<<"b", "3", "d", "_">> \o func \o sfx \o <<"(">> \o join(<<",", " ">>, args) \o <<")">>, ctx)

\* CodeGen.parse_range: yields [ok, indices]; int() and the unpacking of
\* split("..") raise ValueError
range_indices(start, end) ==
    [i \in 1..(IF end > start THEN end - start ELSE 0) |-> str_of(start + i - 1)]

CodeGen_parse_range(range_str) ==
    IF range_str = <<"x", "y", "z">> THEN [ok |-> TRUE, indices |-> <<<<"x">>, <<"y">>, <<"z">>>>]
    ELSE IF range_str = <<"x", "y", "z", "w">> THEN [ok |-> TRUE, indices |-> <<<<"x">>, <<"y">>, <<"z">>, <<"w">>>>]
    ELSE IF contains(range_str, <<".", ".">>)
    THEN LET parts == split_dotdot(range_str, 1, <<>>)
         IN  IF Len(parts) = 2 /\ int_ok(parts[1]) /\ int_ok(parts[2])
             THEN [ok |-> TRUE, indices |-> range_indices(int_of(parts[1]), int_of(parts[2]))]
             ELSE [ok |-> FALSE, indices |-> <<>>]
    ELSE [ok |-> TRUE, indices |-> <<range_str>>]

\* Loop variables whose regular expression \b{var}\b is the literal name:
\* non-empty, word characters only.
literal_pattern(var) == Len(var) > 0 /\ \A i \in 1..Len(var) : is_word(var[i])

\* Loop variables whose regular expression does not compile (re.error)
bad_pattern(var) == var \in {<<"(">>, <<")">>, <<"[">>, <<"+">>, <<"*">>}

component_of(val) ==
    CASE val = <<"0">> -> <<"x">> [] val = <<"1">> -> <<"y">> [] val = <<"2">> -> <<"z">> [] val = <<"3">> -> <<"w">>

\* substitute_index without the replacement of the loop variable
substitute_index_skip(code, var, val) == clean_matrix_index(code)

\* substitute_index for a loop variable with a literal pattern and a value
\* without backslash
substitute_index(code, var, val) ==
    LET c1 == re_sub(var, val, code, "word")
        c2 == IF val \in {<<"x">>, <<"y">>, <<"z">>, <<"w">>}
              THEN re_sub(<<"[">> \o val \o <<"]">>, <<".">> \o val, c1, "not_open")
              ELSE IF val \in {<<"0">>, <<"1">>, <<"2">>, <<"3">>}
              THEN re_sub(<<"[">> \o val \o <<"]">>, <<".">> \o component_of(val),
                          re_sub(<<"[">> \o val \o <<".", "0", "f", "]">>, <<"[">> \o val \o <<"]">>, c1, "plain"),
                          "vec")
              ELSE c1
    IN  clean_matrix_index(c2)

RECURSIVE emit_expr(_, _, _, _)
RECURSIVE emit_list(_, _, _, _, _, _)
RECURSIVE emit_call_args(_, _, _, _, _, _, _)
RECURSIVE emit_rows(_, _, _, _, _, _)
RECURSIVE expand(_, _, _, _, _, _, _)

\* [self.emit_expr(e) for e in elements], from element i on; code is the list
emit_list(elements, i, acc, m, sfx, ctx) ==
    IF i > Len(elements) THEN Emitted(acc, ctx)
    ELSE Then(emit_expr(elements[i], m, sfx, ctx), LAMBDA r :
             emit_list(elements, i + 1, Append(acc, r.code), m, sfx, r.ctx))

\* emit_int_context left as the integer argument set it
leave_int_context_stuck(ctx) == ctx

\* self.emit_int_context = False, after an integer argument was emitted
leave_int_context(ctx) == FALSE

\* emit_call_args, from argument i (1-based) on; code is the list result
emit_call_args(func, args, i, acc, m, sfx, ctx) ==
    IF i > Len(args) THEN Emitted(acc, ctx)
    ELSE IF (i - 1) \in INT_PARAM_FUNCS(func)
    THEN Then(emit_expr(args[i], m, sfx, TRUE), LAMBDA r :
             emit_call_args(func, args, i + 1, Append(acc, r.code), m, sfx,
                            leave_int_context(r.ctx)))
    ELSE Then(emit_expr(args[i], m, sfx, ctx), LAMBDA r :
             emit_call_args(func, args, i + 1, Append(acc, r.code), m, sfx, r.ctx))

\* the rows of a MatrixExpr, from row i on; code is the list rows
emit_rows(rows, i, acc, m, sfx, ctx) ==
    IF i > Len(rows) THEN Emitted(acc, ctx)
    ELSE Then(emit_list(rows[i], 1, <<>>, m, sfx, ctx), LAMBDA r :
             emit_rows(rows, i + 1, Append(acc, <<"{">> \o join(<<",", " ">>, r.code) \o <<"}">>),
                       m, sfx, r.ctx))

\* One iteration of the loop of emit_sum / emit_comprehension for index idx:
\* the body rendered and substituted.
expand_index(e, idx, m, sfx, ctx) ==
    Then(emit_expr(e.body, m, sfx, ctx), LAMBDA r :
        IF bad_pattern(e.var) THEN EmitRaise("re.error", r.ctx)
        ELSE IF literal_pattern(e.var) /\ BSL \notin {idx[k] : k \in 1..Len(idx)}
        THEN Emitted(substitute_index(r.code, e.var, idx), r.ctx)
        ELSE CHOOSE unmodelled \in {} : TRUE)

\* the for loop of emit_sum / emit_comprehension from index i on; code is the
\* list terms / elements
expand(e, idxs, i, acc, m, sfx, ctx) ==
    IF i > Len(idxs) THEN Emitted(acc, ctx)
    ELSE Then(expand_index(e, idxs[i], m, sfx, ctx), LAMBDA r :
             expand(e, idxs, i + 1,
                    Append(acc, IF e.tag = "SumExpr" THEN <<"(">> \o r.code \o <<")">> ELSE r.code),
                    m, sfx, r.ctx))

\* " + ".join(terms)
join_terms(terms_) == join(<<" ", "+", " ">>, terms_)

emit_sum(e, m, sfx, ctx) ==
    LET rng == CodeGen_parse_range(e.range_expr)
    IN  IF ~rng.ok THEN EmitRaise("ValueError", ctx)
        ELSE Then(expand(e, rng.indices, 1, <<>>, m, sfx, ctx), LAMBDA r :
                 Emitted(join_terms(r.code), r.ctx))

emit_comprehension(e, m, sfx, ctx) ==
    LET rng == CodeGen_parse_range(e.range_expr)
    IN  IF ~rng.ok THEN EmitRaise("ValueError", ctx)
        ELSE Then(expand(e, rng.indices, 1, <<>>, m, sfx, ctx), LAMBDA r :
                 Emitted(<<"(", "b", "3", "d", "_", "v", "e", "c", "_", "t", ")", "{">> \o join(<<",", " ">>, r.code) \o <<"}">>, r.ctx))

\* the NumExpr case of emit_expr
emit_number(val, ctx) ==
    IF ctx THEN before_dot(val, 1)
    ELSE IF "." \notin {val[i] : i \in 1..Len(val)} THEN val \o <<".", "0", "f">>
    ELSE val \o <<"f">>

\* the IndexExpr case of emit_expr
emit_index(base, idx) ==
    IF idx \in {<<"0">>, <<"0", ".", "0", "f">>} THEN base \o <<".", "x">>
    ELSE IF idx \in {<<"1">>, <<"1", ".", "0", "f">>} THEN base \o <<".", "y">>
    ELSE IF idx \in {<<"2">>, <<"2", ".", "0", "f">>} THEN base \o <<".", "z">>
    ELSE IF idx \in {<<"3">>, <<"3", ".", "0", "f">>} THEN base \o <<".", "w">>
    ELSE IF idx \in {<<"x">>, <<"y">>, <<"z">>, <<"w">>} THEN base \o <<".">> \o idx
    ELSE base \o <<"[">> \o idx \o <<"]">>

emit_expr(e, m, sfx, ctx) ==
    CASE e.tag = "NumExpr" -> Emitted(emit_number(e.value, ctx), ctx)
    [] e.tag = "VarExpr" -> Emitted(emit_var(e.name, m, sfx), ctx)
    [] e.tag = "BinOpExpr" ->
         Then(emit_expr(e.left, m, sfx, ctx), LAMBDA left :
             Then(emit_expr(e.right, m, sfx, left.ctx), LAMBDA right :
                 Emitted(emit_binop(e.op, left.code, right.code, m, sfx), right.ctx)))
    [] e.tag = "UnaryExpr" ->
         Then(emit_expr(e.operand, m, sfx, ctx), LAMBDA operand :
             IF e.op = <<"-">> THEN Emitted(<<"-", "(">> \o operand.code \o <<")">>, operand.ctx)
             ELSE IF e.op = <<"T">>
             THEN Emitted(<<"b", "3", "d", "_", "m", "a", "t", "_", "t", "r", "a", "n", "s", "p", "o", "s", "e">> \o sfx \o <<"(">> \o operand.code \o <<")">>, operand.ctx)
             ELSE Emitted(e.op \o <<"(">> \o operand.code \o <<")">>, operand.ctx))
    [] e.tag = "CallExpr" ->
         Then(emit_call_args(e.func, e.args, 1, <<>>, m, sfx, ctx), LAMBDA args :
             emit_call(e.func, args.code, sfx, args.ctx))
    [] e.tag = "IndexExpr" ->
         Then(emit_expr(e.base, m, sfx, ctx), LAMBDA base :
             Then(emit_expr(e.index, m, sfx, base.ctx), LAMBDA idx :
                 Emitted(emit_index(base.code, idx.code), idx.ctx)))
    [] e.tag = "MatrixIndexExpr" ->
         Then(emit_expr(e.base, m, sfx, ctx), LAMBDA base :
             Then(emit_expr(e.row, m, sfx, base.ctx), LAMBDA row :
                 Then(emit_expr(e.col, m, sfx, row.ctx), LAMBDA cl :
                     Emitted(base.code \o <<".", "m", "[">> \o strip_0f(row.code) \o <<"]", "[">>
                             \o strip_0f(cl.code) \o <<"]">>, cl.ctx))))
    [] e.tag = "DotAccessExpr" ->
         Then(emit_expr(e.base, m, sfx, ctx), LAMBDA base :
             Emitted(base.code \o <<".">> \o e.field, base.ctx))
    [] e.tag = "SumExpr" -> emit_sum(e, m, sfx, ctx)
    [] e.tag = "NormExpr" ->
         Then(emit_expr(e.operand, m, sfx, ctx), LAMBDA operand :
             Emitted(<<"b", "3", "d", "_", "v", "e", "c", "_", "l", "e", "n", "g", "t", "h">> \o sfx \o <<"(">> \o operand.code \o <<")">>, operand.ctx))
    [] e.tag = "VectorExpr" ->
         Then(emit_list(e.elements, 1, <<>>, m, sfx, ctx), LAMBDA elems :
             Emitted(<<"(", "b", "3", "d", "_", "v", "e", "c", "_", "t", ")", "{">> \o join(<<",", " ">>, elems.code) \o <<"}">>, elems.ctx))
    [] e.tag = "ComprehensionExpr" -> emit_comprehension(e, m, sfx, ctx)
    [] e.tag = "MatrixExpr" ->
         Then(emit_rows(e.rows, 1, <<>>, m, sfx, ctx), LAMBDA rows :
             Emitted(<<"(", "b", "3", "d", "_", "m", "a", "t", "_", "t", ")", "{", ".", "m", " ", "=", " ", "{">> \o join(<<",", " ">>, rows.code) \o <<"}", "}">>, rows.ctx))
    [] e.tag = "LetExpr" -> emit_expr(e.body, m, sfx, ctx)
    [] e.tag = "IfExpr" ->
         Then(emit_expr(e.cond, m, sfx, ctx), LAMBDA cond :
             Then(emit_expr(e.then_expr, m, sfx, cond.ctx), LAMBDA then :
                 Then(emit_expr(e.else_expr, m, sfx, then.ctx), LAMBDA else_ :
                     Emitted(<<"(", "(">> \o cond.code \o <<")", " ", "?", " ">> \o then.code \o <<" ", ":", " ">>
                             \o else_.code \o <<")">>, else_.ctx))))
    [] OTHER -> Emitted(<<"_", "u", "n", "k", "n", "o", "w", "n", "_">>, ctx)

----------------------------------------------------------------------------
(* Function bodies *)

\* "    " * indent
RECURSIVE indentation(_)
indentation(indent) == IF indent = 0 THEN <<>> ELSE <<" ", " ", " ", " ">> \o indentation(indent - 1)

\* for name, value in expr.bindings: ... append(f"{ind}{val_type} {name} = {val_code};")
RECURSIVE emit_bindings(_, _, _, _, _, _, _)
emit_bindings(bindings, i, ind, acc, m, sfx, ctx) ==
    IF i > Len(bindings) THEN Emitted(acc, ctx)
    ELSE Then(emit_expr(bindings[i][2], m, sfx, ctx), LAMBDA val :
             emit_bindings(bindings, i + 1, ind,
                Append(acc, ind \o infer_c_type(bindings[i][2]) \o <<" ">> \o bindings[i][1]
                            \o <<" ", "=", " ">> \o val.code \o <<";">>),
                m, sfx, val.ctx))

\* while isinstance(expr, LetExpr): ...; expr = expr.body
\* yields the declarations in code and the remaining expression in rest
RECURSIVE peel_lets(_, _, _, _, _, _)
peel_lets(e, ind, acc, m, sfx, ctx) ==
    IF e.tag # "LetExpr"
    THEN [ok |-> TRUE, code |-> acc, ctx |-> ctx, err |-> NoError, rest |-> e]
    ELSE Then(emit_bindings(e.bindings, 1, ind, acc, m, sfx, ctx), LAMBDA r :
             peel_lets(e.body, ind, r.code, m, sfx, r.ctx))

RECURSIVE emit_complex_body(_, _, _, _, _)

\* if isinstance(expr, IfExpr): ... of emit_complex_body, after the leading
\* let bindings were emitted into lets
emit_complex_if(e, lets, ind, indent, m, sfx) ==
    Then(emit_expr(e.cond, m, sfx, lets.ctx), LAMBDA cond :
        IF \/ e.then_expr.tag = "LetExpr" \/ has_nested_conditional_lets(e.then_expr)
           \/ e.else_expr.tag = "LetExpr" \/ has_nested_conditional_lets(e.else_expr)
        THEN Then(emit_complex_body(e.then_expr, indent + 1, m, sfx, cond.ctx), LAMBDA then_body :
                 Then(emit_complex_body(e.else_expr, indent + 1, m, sfx, then_body.ctx), LAMBDA else_body :
                     Emitted(join(<<NL>>,
                         lets.code \o
                         <<ind \o <<"i", "f", " ", "(">> \o cond.code \o <<")", " ", "{">>,
                           then_body.code,
                           ind \o <<"}", " ", "e", "l", "s", "e", " ", "{">>,
                           else_body.code,
                           ind \o <<"}">>>>), else_body.ctx)))
        ELSE Then(emit_expr(e.then_expr, m, sfx, cond.ctx), LAMBDA then_code :
                 Then(emit_expr(e.else_expr, m, sfx, then_code.ctx), LAMBDA else_code :
                     Emitted(join(<<NL>>,
                         Append(lets.code,
                                ind \o <<"r", "e", "t", "u", "r", "n", " ", "(", "(">> \o cond.code \o <<")", " ", "?", " ">>
                                \o then_code.code \o <<" ", ":", " ">> \o else_code.code \o <<")", ";">>)),
                         else_code.ctx))))

emit_complex_body(e0, indent, m, sfx, ctx) ==
    Then(peel_lets(e0, indentation(indent), <<>>, m, sfx, ctx), LAMBDA lets :
        IF lets.rest.tag = "IfExpr"
        THEN emit_complex_if(lets.rest, lets, indentation(indent), indent, m, sfx)
        ELSE Then(emit_expr(lets.rest, m, sfx, lets.ctx), LAMBDA code :
                 Emitted(join(<<NL>>, Append(lets.code, indentation(indent) \o <<"r", "e", "t", "u", "r", "n", " ">>
                                                        \o code.code \o <<";">>)),
                         code.ctx)))

\* extract_lets: yields the declarations in code and the final expression's
\* text in final
extract_lets(e0, m, sfx, ctx) ==
    Then(peel_lets(e0, <<>>, <<>>, m, sfx, ctx), LAMBDA lets :
        Then(emit_expr(lets.rest, m, sfx, lets.ctx), LAMBDA final :
            [ok |-> TRUE, code |-> lets.code, ctx |-> final.ctx, err |-> NoError,
             final |-> final.code]))

\* ", ".join(f"{self.c_type(p.type_str)} {p.name}" for p in func.params)
emit_params(params) ==
    join(<<",", " ">>, [i \in 1..Len(params) |-> c_type(params[i].type_str) \o <<" ">> \o params[i].name])

\* the suffix put between the name and the suffix, wrongly, when there is one
func_name_sep(func, sfx) ==
    IF sfx = <<>> THEN <<"b", "3", "d", "_">> \o func.name ELSE <<"b", "3", "d", "_">> \o func.name \o <<"_">> \o sfx

\* func_name = f"b3d_{func.name}{self.suffix}"
func_name(func, sfx) == <<"b", "3", "d", "_">> \o func.name \o sfx

emit_func(func, m, sfx, ctx) ==
    LET ret_type == c_type(func.return_type)
        head == <<"s", "t", "a", "t", "i", "c", " ", "i", "n", "l", "i", "n", "e", " ">> \o ret_type \o <<" ">> \o func_name(func, sfx)
                \o <<"(">> \o emit_params(func.params) \o <<")">> \o <<NL>> \o <<"{">> \o <<NL>>
    IN  IF has_nested_conditional_lets(func.body)
        THEN Then(emit_complex_body(func.body, 1, m, sfx, ctx), LAMBDA body_lines :
                 Emitted(head \o body_lines.code \o <<NL>> \o <<"}">>, body_lines.ctx))
        ELSE Then(extract_lets(func.body, m, sfx, ctx), LAMBDA ex :
                 IF Len(ex.code) > 0
                 THEN Emitted(head
                              \o join(<<NL>>, [i \in 1..Len(ex.code) |-> <<" ", " ", " ", " ">> \o ex.code[i]])
                              \o <<NL, NL>> \o <<" ", " ", " ", " ", "r", "e", "t", "u", "r", "n", " ">> \o ex.final \o <<";">> \o <<NL>> \o <<"}">>,
                              ex.ctx)
                 ELSE Then(emit_expr(func.body, m, sfx, ex.ctx), LAMBDA body_code :
                          Emitted(head \o <<" ", " ", " ", " ", "r", "e", "t", "u", "r", "n", " ">> \o body_code.code \o <<";">> \o <<NL>> \o <<"}">>,
                                  body_code.ctx)))

\* the five comment lines and the empty line that generate_c starts with
header_lines(m) ==
    << <<"/", "*", " ", "A", "u", "t", "o", "-", "g", "e", "n", "e", "r", "a", "t", "e", "d", " ", "f", "r", "o", "m", " ", "m", "a", "t", "h", ".", "d", "s", "l", " ", "-", " ", "D", "O", " ", "N", "O", "T", " ", "E", "D", "I", "T">>,
       <<" ", "*">>,
       <<" ", "*", " ", "M", "a", "t", "h", " ", "o", "p", "e", "r", "a", "t", "i", "o", "n", "s", " ", "f", "o", "r", " ", "B", "3", "D", " ", "(">> \o (IF m = FLOAT THEN <<"f", "l", "o", "a", "t", "i", "n", "g", "-", "p", "o", "i", "n", "t">> ELSE <<"f", "i", "x", "e", "d", "-", "p", "o", "i", "n", "t">>)
            \o <<" ", "m", "o", "d", "e", ")", ".">>,
       <<" ", "*", " ", "I">> \o <<"U+2764">> \o <<"L", "A", "-", "s", "t", "y", "l", "e", " ", "D", "S", "L", " ", "c", "o", "m", "p", "i", "l", "e", "d", " ", "t", "o", " ", "C", ".">>,
       <<" ", "*", "/">>,
       <<>> >>

\* for func in funcs: lines.append(gen.emit_func(func)); lines.append("")
RECURSIVE generate_lines(_, _, _, _, _, _)
generate_lines(fs, i, acc, m, sfx, ctx) ==
    IF i > Len(fs) THEN Emitted(acc, ctx)
    ELSE Then(emit_func(fs[i], m, sfx, ctx), LAMBDA r :
             generate_lines(fs, i + 1, acc \o <<r.code, <<>>>>, m, sfx, r.ctx))

\* generate_c(funcs, mode, suffix): code is the text returned
generate_c(fs, m, sfx) ==
    Then(generate_lines(fs, 1, header_lines(m), m, sfx, FALSE), LAMBDA r :
        Emitted(join(<<NL>>, r.code), r.ctx))

----------------------------------------------------------------------------
(* The driver: main runs Lexer.tokenize, Parser.parse and generate_c and    *)
(* writes the output.  No exception is caught anywhere: a raised exception  *)
(* ends the run.                                                            *)

NoOutput == <<>>       \* nothing was written to the output file or to stdout

\* Token("EOF", "", self.line, self.col)
eof_token(ln, cl) == Token("EOF", <<>>, ln, cl)

\* One iteration of the while loop of Lexer.tokenize
TokenizeIter ==
    /\ pc = "tokenize"
    /\ pos < Len(source)
    /\ \E st \in {tokenize_iteration(source, lexer_state)} :
           /\ pos' = st.pos
           /\ line' = st.line
           /\ col' = st.col
           /\ tokens' = st.tokens
           /\ bracket_depth' = st.bracket_depth
           /\ paren_depth' = st.paren_depth
    /\ UNCHANGED <<lint_vars, source, pc, raised, gen_vars, expand_vars>>

\* The loop of Lexer.tokenize ends: the EOF token is appended
TokenizeEOF ==
    /\ pc = "tokenize"
    /\ pos >= Len(source)
    /\ tokens' = Append(tokens, eof_token(line, col))
    /\ pc' = "parse"
    /\ UNCHANGED <<lint_vars, source, pos, line, col, bracket_depth, paren_depth, raised,
                   gen_vars, expand_vars>>

\* funcs = parser_obj.parse()
Parse ==
    /\ pc = "parse"
    /\ \E r \in {parse(tokens)} :
           IF r.ok
           THEN funcs' = r.node /\ pc' = "generate_c" /\ UNCHANGED raised
           ELSE raised' = r.err /\ pc' = "raised" /\ UNCHANGED funcs
    /\ UNCHANGED <<lint_vars, source, lexer_vars, mode, suffix, emit_int_context, lines,
                   func_idx, written, expand_vars>>

\* generate_c up to its loop: the header lines and gen = CodeGen(mode, suffix)
GenerateHeader ==
    /\ pc = "generate_c"
    /\ lines' = header_lines(mode)
    /\ emit_int_context' = FALSE
    /\ func_idx' = 0
    /\ pc' = "emit_func"
    /\ UNCHANGED <<lint_vars, source, lexer_vars, raised, funcs, mode, suffix, written, expand_vars>>

\* One iteration of the loop of generate_c: lines.append(gen.emit_func(func))
EmitFunc ==
    /\ pc = "emit_func"
    /\ func_idx < Len(funcs)
    /\ \E r \in {emit_func(funcs[func_idx + 1], mode, suffix, emit_int_context)} :
           /\ emit_int_context' = r.ctx
           /\ IF r.ok
              THEN /\ lines' = lines \o <<r.code, <<>>>>
                   /\ func_idx' = func_idx + 1
                   /\ UNCHANGED <<pc, raised>>
              ELSE /\ raised' = r.err
                   /\ pc' = "raised"
                   /\ UNCHANGED <<lines, func_idx>>
    /\ UNCHANGED <<lint_vars, source, lexer_vars, funcs, mode, suffix, written, expand_vars>>

\* generate_c returns "\n".join(lines) and main writes it
WriteOutput ==
    /\ pc = "emit_func"
    /\ func_idx = Len(funcs)
    /\ written' = join(<<NL>>, lines)
    /\ pc' = "done"
    /\ UNCHANGED <<lint_vars, source, lexer_vars, raised, funcs, mode, suffix, emit_int_context,
                   lines, func_idx, expand_vars>>

----------------------------------------------------------------------------
(* emit_sum and emit_comprehension, one step per statement of their loop   *)

\* indices = self.parse_range(expr.range_expr); terms = []
ExpandRange ==
    /\ pc = "expand_range"
    /\ \E rng \in {CodeGen_parse_range(expr.range_expr)} :
           IF rng.ok
           THEN indices' = rng.indices /\ pc' = "expand_iter" /\ UNCHANGED raised
           ELSE raised' = [kind |-> "ValueError"] /\ pc' = "raised" /\ UNCHANGED indices
    /\ terms' = <<>>
    /\ UNCHANGED <<lint_vars, source, lexer_vars, gen_vars, expr, expansion>>

\* One iteration of "for idx in indices": the body is rendered, the index is
\* substituted and the term (or element) is appended
ExpandIter ==
    /\ pc = "expand_iter"
    /\ Len(terms) < Len(indices)
    /\ \E r \in {expand_index(expr, indices[Len(terms) + 1], mode, suffix, emit_int_context)} :
           /\ emit_int_context' = r.ctx
           /\ IF r.ok
              THEN /\ terms' = Append(terms, IF expr.tag = "SumExpr"
                                             THEN <<"(">> \o r.code \o <<")">> ELSE r.code)
                   /\ UNCHANGED <<pc, raised>>
              ELSE /\ raised' = r.err
                   /\ pc' = "raised"
                   /\ UNCHANGED terms
    /\ UNCHANGED <<lint_vars, source, lexer_vars, funcs, mode, suffix, lines, func_idx, written,
                   expr, indices, expansion>>

\* return " + ".join(terms)  /  return "(b3d_vec_t){" + ", ".join(elements) + "}"
ExpandReturn ==
    /\ pc = "expand_iter"
    /\ Len(terms) = Len(indices)
    /\ expansion' = IF expr.tag = "SumExpr" THEN join_terms(terms)
                    ELSE <<"(", "b", "3", "d", "_", "v", "e", "c", "_", "t", ")", "{">> \o join(<<",", " ">>, terms) \o <<"}">>
    /\ pc' = "expanded"
    /\ UNCHANGED <<lint_vars, source, lexer_vars, gen_vars, raised, expr, indices, terms>>

----------------------------------------------------------------------------
(* check-math-usage.py.  A C file is its content, a text; the directory     *)
(* examples/ is the list of the contents of its *.c files in the order of   *)
(* sorted(glob("*.c")), or NoDir when it does not exist.                    *)

\* examples/ with the given files, and examples/ missing
Dir(files) == [is_dir |-> TRUE, c_files |-> files]
NoDir == [is_dir |-> FALSE, c_files |-> <<>>]

\* a file of the given content, and one whose read_text raises OSError or
\* UnicodeDecodeError
File(text) == [readable |-> TRUE, text |-> text]
Unreadable == [readable |-> FALSE, text |-> <<>>]
NoExit == -1

FF == "\f"
cpVT == "U+000B"
cpFS == "U+001C"
cpGS == "U+001D"
cpRS == "U+001E"
cpNEL == "U+0085"
cpNBSP == "U+00A0"
cpLS == "U+2028"
cpPS == "U+2029"

FORBIDDEN_FUNCS == <<<<"s", "i", "n", "f">>, <<"c", "o", "s", "f">>, <<"t", "a", "n", "f">>, <<"s", "q", "r", "t", "f">>, <<"f", "a", "b", "s", "f">>, <<"s", "i", "n", "c", "o", "s", "f">>>>

\* the line boundaries of str.splitlines
line_boundary(ch) == ch \in {NL, CR, cpVT, FF, cpFS, cpGS, cpRS, cpNEL, cpLS, cpPS}

\* \s of a str pattern
is_space(ch) == ch \in {" ", TAB, cpNBSP} \/ line_boundary(ch)

\* [a-zA-Z0-9_]
ascii_word(ch) == ch \in AsciiLower \cup AsciiUpper \cup AsciiDigit \cup {"_"}

\* \s*\( matches at text[i]
RECURSIVE open_paren_at(_, _)
open_paren_at(text, i) ==
    IF i > Len(text) THEN FALSE
    ELSE IF text[i] = "(" THEN TRUE
    ELSE IF is_space(text[i]) THEN open_paren_at(text, i + 1)
    ELSE FALSE

\* FUNC_PATTERN matches at text[i] with group(1) = FORBIDDEN_FUNCS[f]
func_match(text, i, f) ==
    /\ i = 1 \/ ~ascii_word(text[i - 1])
    /\ starts_at(text, i, FORBIDDEN_FUNCS[f])
    /\ open_paren_at(text, i + Len(FORBIDDEN_FUNCS[f]))

\* [match.group(1) for match in FUNC_PATTERN.finditer(text)], from text[i] on
RECURSIVE finditer(_, _)
finditer(text, i) ==
    IF i > Len(text) THEN <<>>
    ELSE IF \E f \in 1..Len(FORBIDDEN_FUNCS) : func_match(text, i, f)
    THEN LET f == CHOOSE f \in 1..Len(FORBIDDEN_FUNCS) :
                      /\ func_match(text, i, f)
                      /\ \A g \in 1..(f - 1) : ~func_match(text, i, g)
         IN  <<FORBIDDEN_FUNCS[f]>> \o finditer(text, i + Len(FORBIDDEN_FUNCS[f]) + 1)
    ELSE finditer(text, i + 1)

\* \s+ from text[i] on ends just before text[j]
spaces_between(text, i, j) == j > i /\ \A k \in i..(j - 1) : is_space(text[k])

\* INCLUDE_PATTERN.search(content)
INCLUDE_PATTERN(text) ==
    \E i \in 1..Len(text) : \E j \in (i + 9)..(Len(text) - 11) :
        /\ starts_at(text, i, <<"#", "i", "n", "c", "l", "u", "d", "e">>)
        /\ spaces_between(text, i + 8, j)
        /\ text[j] \in {"<", "\""}
        /\ starts_at(text, j + 1, <<"b", "3", "d", "-", "m", "a", "t", "h", ".", "h">>)
        /\ text[j + 11] \in {">", "\""}

\* re.search(r"\bb3d_(sinf|cosf|tanf|sqrtf|fabsf|sincosf)\s*\(", content)
uses_b3d_wrappers(text) ==
    \E i \in 1..Len(text) : \E f \in 1..Len(FORBIDDEN_FUNCS) :
        /\ i = 1 \/ ~is_word(text[i - 1])
        /\ starts_at(text, i, <<"b", "3", "d", "_">> \o FORBIDDEN_FUNCS[f])
        /\ open_paren_at(text, i + 4 + Len(FORBIDDEN_FUNCS[f]))

\* content.splitlines(), from text[i] on; cur is the line being read
RECURSIVE splitlines(_, _, _)
splitlines(text, i, cur) ==
    IF i > Len(text) THEN (IF cur = <<>> THEN <<>> ELSE <<cur>>)
    ELSE IF text[i] = CR /\ i < Len(text) /\ text[i + 1] = NL
    THEN <<cur>> \o splitlines(text, i + 2, <<>>)
    ELSE IF line_boundary(text[i]) THEN <<cur>> \o splitlines(text, i + 1, <<>>)
    ELSE splitlines(text, i + 1, Append(cur, text[i]))

\* line.find("*/", i): a 0-based index, -1 if there is none
find_close(ln, i) ==
    IF \E k \in (i + 1)..Len(ln) : starts_at(ln, k, <<"*", "/">>)
    THEN (CHOOSE k \in (i + 1)..Len(ln) :
              /\ starts_at(ln, k, <<"*", "/">>)
              /\ \A h \in (i + 1)..(k - 1) : ~starts_at(ln, h, <<"*", "/">>)) - 1
    ELSE -1

\* " " * n
spaces(n) == [k \in 1..n |-> " "]

\* the inner loop of a string or character literal opened before the 0-based
\* index i: cleaned and i when the loop ends
RECURSIVE skip_literal(_, _, _, _)
skip_literal(ln, i, quote, cleaned) ==
    IF i >= Len(ln) THEN [cleaned |-> cleaned, i |-> i]
    ELSE IF ln[i + 1] = BSL /\ i + 1 < Len(ln)
    THEN skip_literal(ln, i + 2, quote, cleaned \o <<" ", " ">>)
    ELSE IF ln[i + 1] = quote THEN [cleaned |-> cleaned \o <<" ">>, i |-> i + 1]
    ELSE skip_literal(ln, i + 1, quote, cleaned \o <<" ">>)

\* the while loop over one line, from the 0-based index i on:
\* "".join(cleaned) and in_block_comment at the end of the line
RECURSIVE strip_line(_, _, _, _)
strip_line(ln, i, cleaned, in_comment) ==
    LET n == Len(ln)
    IN  IF i >= n THEN [cleaned |-> cleaned, in_block_comment |-> in_comment]
        ELSE IF in_comment
        THEN LET end == find_close(ln, i)
             IN  IF end # -1
                 THEN strip_line(ln, end + 2, cleaned \o spaces(end - i + 2), FALSE)
                 ELSE [cleaned |-> cleaned \o spaces(n - i), in_block_comment |-> TRUE]
        ELSE IF starts_at(ln, i + 1, <<"/", "*">>)
        THEN LET end == find_close(ln, i + 2)
             IN  IF end # -1
                 THEN strip_line(ln, end + 2, cleaned \o spaces(end - i + 2), FALSE)
                 ELSE [cleaned |-> cleaned \o spaces(n - i), in_block_comment |-> TRUE]
        ELSE IF starts_at(ln, i + 1, <<"/", "/">>)
        THEN [cleaned |-> cleaned \o spaces(n - i), in_block_comment |-> FALSE]
        ELSE IF ln[i + 1] \in {"\"", "'"}
        THEN LET r == skip_literal(ln, i + 1, ln[i + 1], cleaned \o <<" ">>)
             IN  strip_line(ln, r.i, r.cleaned, FALSE)
        ELSE strip_line(ln, i + 1, Append(cleaned, ln[i + 1]), FALSE)

\* strip_comments_and_strings(content), from line k on
RECURSIVE strip_lines(_, _, _, _)
strip_lines(lns, k, result, in_comment) ==
    IF k > Len(lns) THEN result
    ELSE LET r == strip_line(lns[k], 0, <<>>, in_comment)
         IN  strip_lines(lns, k + 1, Append(result, r.cleaned), r.in_block_comment)

strip_comments_and_strings(text) == strip_lines(splitlines(text, 1, <<>>), 1, <<>>, FALSE)

\* orig.strip()
RECURSIVE strip(_)
strip(s) ==
    IF s = <<>> THEN s
    ELSE IF is_space(s[1]) THEN strip(Tail(s))
    ELSE IF is_space(s[Len(s)]) THEN strip(SubSeq(s, 1, Len(s) - 1))
    ELSE s

\* (lineno, func_name, orig.strip())
Offense(lineno, func, text) == <<lineno, func, text>>

missing_include == Offense(0, <<"m", "i", "s", "s", "i", "n", "g", "-", "i", "n", "c", "l", "u", "d", "e">>, <<"b", "3", "d", "-", "m", "a", "t", "h", ".", "h", " ", "n", "o", "t", " ", "i", "n", "c", "l", "u", "d", "e", "d">>)

\* the loop of check_file over the lines, from line lineno on
RECURSIVE line_offenses(_, _, _)
line_offenses(original_lines, cleaned, lineno) ==
    IF lineno > Len(original_lines) \/ lineno > Len(cleaned) THEN <<>>
    ELSE LET found == finditer(cleaned[lineno], 1)
         IN  [k \in 1..Len(found) |-> Offense(lineno, found[k], strip(original_lines[lineno]))]
             \o line_offenses(original_lines, cleaned, lineno + 1)

\* check_file once the lines are cleaned
offenses(text, cleaned) ==
    LET per_line == line_offenses(splitlines(text, 1, <<>>), cleaned, 1)
    IN  IF uses_b3d_wrappers(text) /\ ~INCLUDE_PATTERN(text)
        THEN <<missing_include>> \o per_line
        ELSE per_line

\* check_file(filepath)
check_file(file) ==
    IF ~file.readable THEN <<>>
    ELSE offenses(file.text, strip_comments_and_strings(file.text))

NotStarted ==
    /\ file_idx = 0
    /\ content = <<>>
    /\ cleaned_lines = <<>>
    /\ in_block_comment = FALSE
    /\ errors = <<>>
    /\ total_errors = 0
    /\ files_with_errors = 0
    /\ exit_code = NoExit

\* main up to the loop over c_files
Main ==
    /\ pc = "main"
    /\ IF ~examples_dir.is_dir THEN exit_code' = 1 /\ pc' = "exit"
       ELSE IF examples_dir.c_files = <<>> THEN exit_code' = 0 /\ pc' = "exit"
       ELSE pc' = "for" /\ UNCHANGED exit_code
    /\ UNCHANGED <<gen_math_vars, examples_dir, file_idx, content, cleaned_lines,
                   in_block_comment, errors, total_errors, files_with_errors>>

\* for filepath in c_files: check_file reads the file
ReadText ==
    /\ pc = "for"
    /\ file_idx < Len(examples_dir.c_files)
    /\ file_idx' = file_idx + 1
    /\ content' = examples_dir.c_files[file_idx + 1].text
    /\ cleaned_lines' = <<>>
    /\ in_block_comment' = FALSE
    /\ errors' = <<>>
    /\ pc' = IF examples_dir.c_files[file_idx + 1].readable THEN "strip" ELSE "checked"
    /\ UNCHANGED <<gen_math_vars, examples_dir, total_errors, files_with_errors, exit_code>>

\* strip_comments_and_strings: one iteration of `for line in lines`
StripLine ==
    /\ pc = "strip"
    /\ Len(cleaned_lines) < Len(splitlines(content, 1, <<>>))
    /\ \E r \in {strip_line(splitlines(content, 1, <<>>)[Len(cleaned_lines) + 1], 0, <<>>,
                            in_block_comment)} :
          /\ cleaned_lines' = Append(cleaned_lines, r.cleaned)
          /\ in_block_comment' = r.in_block_comment
    /\ UNCHANGED <<gen_math_vars, pc, examples_dir, file_idx, content, errors, total_errors,
                   files_with_errors, exit_code>>

\* check_file after strip_comments_and_strings returned
MatchLines ==
    /\ pc = "strip"
    /\ Len(cleaned_lines) = Len(splitlines(content, 1, <<>>))
    /\ errors' = offenses(content, cleaned_lines)
    /\ pc' = "checked"
    /\ UNCHANGED <<gen_math_vars, examples_dir, file_idx, content, cleaned_lines,
                   in_block_comment, total_errors, files_with_errors, exit_code>>

\* main: the body of the loop after check_file returned
CountErrors ==
    /\ pc = "checked"
    /\ total_errors' = total_errors + Len(errors)
    /\ files_with_errors' = IF errors # <<>> THEN files_with_errors + 1 ELSE files_with_errors
    /\ pc' = "for"
    /\ UNCHANGED <<gen_math_vars, examples_dir, file_idx, content, cleaned_lines,
                   in_block_comment, errors, exit_code>>

\* main after the loop: the summary and the exit code
Summary ==
    /\ pc = "for"
    /\ file_idx = Len(examples_dir.c_files)
    /\ exit_code' = IF total_errors > 0 THEN 1 ELSE 0
    /\ pc' = "exit"
    /\ UNCHANGED <<gen_math_vars, examples_dir, file_idx, content, cleaned_lines,
                   in_block_comment, errors, total_errors, files_with_errors>>

----------------------------------------------------------------------------
(* Inputs *)

\* DSL programs given to the driver (~x~ in the notes below is a code point
\* named above)
SrcDot3 ==        \* dot3(a, b) = SUM(i IN xyz) a_i . b_i where a IN R^3 b IN R^3
    <<"d", "o", "t", "3", "(", "a", ",", " ", "b", ")", " ", "=", " ", cpSum, "(", "i", cpIn, "x", "y", "z", ")", " ", "a", "_", "i", " ", cpMidDot, " ", "b", "_", "i", " ", "w", "h", "e", "r", "e", " ", "a", " ", cpIn, " ", cpReal, cpSup3, " ", "b", " ", cpIn, " ", cpReal, cpSup3>>
SrcDot3Star ==
    <<"d", "o", "t", "3", "(", "a", ",", " ", "b", ")", " ", "=", " ", cpSum, "(", "i", cpIn, "x", "y", "z", ")", " ", "a", "_", "i", " ", "*", " ", "b", "_", "i", " ", "w", "h", "e", "r", "e", " ", "a", " ", cpIn, " ", cpReal, cpSup3, " ", "b", " ", cpIn, " ", cpReal, cpSup3>>
SrcLen ==         \* len(v) = SQRT(v.v) where v IN R^4
    <<"l", "e", "n", "(", "v", ")", " ", "=", " ", cpSqrt, "(", "v", cpMidDot, "v", ")", " ", "w", "h", "e", "r", "e", " ", "v", " ", cpIn, " ", cpReal, cpSup4>>
SrcScale ==
    <<"s", "c", "a", "l", "e", "(", "v", ",", " ", "s", ")", " ", "=", " ", "[", "v", "_", "i", " ", "*", " ", "s", " ", "|", " ", "i", " ", cpIn, " ", "x", "y", "z", "w", "]", " ", "w", "h", "e", "r", "e", " ", "v", " ", cpIn, " ", cpReal, cpSup4, " ", "s", " ", cpIn, " ", cpReal>>
SrcTypes ==
    <<"f", "(", "a", ",", " ", "m", ",", " ", "n", ",", " ", "r", ",", " ", "u", ")", " ", "=", " ", "a", "\n", "w", "h", "e", "r", "e", " ", "a", " ", cpIn, " ", cpReal, cpSup4, "\n", " ", " ", "m", " ", cpIn, " ", cpReal, cpSup4, cpSupX, cpSup4, "\n", " ", " ", "n", " ", cpIn, " ", cpInt, "\n", " ", " ", "r", " ", cpIn, " ", cpReal>>
SrcMat == <<"g", "(", "m", ")", " ", "=", " ", "m", " ", "w", "h", "e", "r", "e", " ", "m", " ", cpIn, " ", cpReal, cpSup4, cpSupX, cpSup4>>
SrcVec3 == <<"h", "(", "v", ")", " ", "=", " ", "v", " ", "w", "h", "e", "r", "e", " ", "v", " ", cpIn, " ", cpReal, cpSup3>>
SrcScalar == <<"k", "(", "x", ",", " ", "y", ")", " ", "=", " ", "y", " ", "w", "h", "e", "r", "e", " ", "x", " ", cpIn, " ", cpReal, " ", "y", " ", cpIn, " ", cpInt>>
SrcAscii == <<"p", "(", "v", ",", " ", "m", ")", " ", "=", " ", "v", " ", "w", "h", "e", "r", "e", " ", "v", " ", "\\", "i", "n", " ", "\\", "R", "^", "4", " ", "m", " ", "\\", "i", "n", " ", "\\", "R", "^", "4", "x", "4">>
SrcDotParen == <<"d", "(", "a", ",", " ", "b", ")", " ", "=", " ", "(", "a", ")", cpMidDot, "(", "b", ")", " ", "+", " ", "a", " ", cpMidDot, " ", "2">>
SrcClamp == <<"c", "l", "a", "m", "p", "0", "1", "(", "x", ")", " ", "=", " ", "i", "f", " ", "x", " ", "<", " ", "0", " ", "t", "h", "e", "n", " ", "0", " ", "e", "l", "s", "e", " ", "i", "f", " ", "x", " ", ">", " ", "1", " ", "t", "h", "e", "n", " ", "1", " ", "e", "l", "s", "e", " ", "x">>
SrcNorm ==
    <<"s", "a", "f", "e", "_", "n", "o", "r", "m", "(", "v", ")", " ", "=", " ", "l", "e", "t", " ", "n", " ", "=", " ", cpNorm, "v", cpNorm, " ", "i", "n", " ", "i", "f", " ", "n", " ", "<", " ", cpEpsilon, " ", "t", "h", "e", "n", " ", "v", " ", "e", "l", "s", "e", " ", "[", "v", "_", "i", " ", "/", " ", "n", " ", "|", " ", "i", " ", cpIn, " ", "x", "y", "z", "w", "]", " ", "w", "h", "e", "r", "e", " ", "v", " ", cpIn, " ", cpReal, cpSup4>>
SrcBlock ==
    <<"b", "l", "k", "(", "x", ")", " ", "=", " ", "i", "f", " ", "x", " ", "<", " ", "0", " ", "t", "h", "e", "n", " ", "l", "e", "t", " ", "y", " ", "=", " ", "-", "x", ";", " ", "z", " ", "=", " ", "y", " ", "*", " ", "2", " ", "i", "n", " ", "z", " ", "e", "l", "s", "e", " ", "x">>
SrcRows ==
    <<"r", "(", "M", ")", " ", "=", " ", "m", "a", "t", "_", "r", "o", "w", "3", "(", "M", ",", " ", "1", ")", "\n", "#", " ", "n", "e", "x", "t", "\n", "q", "(", "x", ")", " ", "=", " ", "[", "[", "x", ",", " ", "0", "]", ",", "\n", " ", "[", "0", ",", " ", "x", "]", "]", "\n", "r", "(", "M", ")", " ", "=", " ", "m", "a", "t", "_", "r", "o", "w", "3", "(", "M", ",", " ", "1", ")", "\n">>
SrcNoParen == <<"f", " ", "=", " ", "1">>
SrcNoClose == <<"f", "(", "a", " ", "=", " ", "1">>
SrcOpenExpr == <<"f", "(", "a", ")", " ", "=", " ", "(", "a", " ", "+", " ", "1", "\n">>
SrcBadThen == <<"f", "(", "a", ")", " ", "=", " ", "i", "f", " ", "a", " ", "<", " ", "1", " ", "e", "l", "s", "e", " ", "2">>
SrcJunk == <<")", " ", "7", " ", "f", "(", "a", ")", " ", "=", " ", "a", " ", "@", " ", "+", " ", "$">>
SrcMin == <<"b", "(", "M", ",", " ", "a", ")", " ", "=", " ", "m", "a", "t", "_", "r", "o", "w", "3", "(", "M", ",", " ", "m", "i", "n", "(", "a", ")", ")">>
SrcBadRange == <<"w", "(", "a", ")", " ", "=", " ", cpSum, "(", "i", " ", cpIn, " ", "a", ".", ".", "b", ")", " ", "a", "_", "i">>
SrcConsts == <<"a", "r", "e", "a", "(", "r", ")", " ", "=", " ", cpPi, " ", "*", " ", "r", " ", "*", " ", "r", " ", "+", " ", "O", "N", "E", " ", "-", " ", "Z", "E", "R", "O", " ", "/", " ", "E", "P", "S", "I", "L", "O", "N">>
SrcIdxOne == <<"s", "e", "c", "o", "n", "d", "(", "a", ")", " ", "=", " ", "a", "[", "O", "N", "E", "]", " ", "w", "h", "e", "r", "e", " ", "a", " ", cpIn, " ", cpReal, cpSup4>>
SrcDotsName == <<".", ".", "(", "x", ")", " ", "=", " ", "x">>
SrcSub == <<"s", "(", "a", ")", " ", "=", " ", "a", cpSubI, " ", "+", " ", "a", cpSub0>>
SrcRowNest == <<"n", "(", "M", ",", " ", "N", ")", " ", "=", " ", "m", "a", "t", "_", "r", "o", "w", "3", "(", "M", ",", " ", "m", "a", "t", "_", "r", "o", "w", "3", "(", "N", ",", " ", "0", ")", " ", "+", " ", "1", ")">>
SrcRowFrac == <<"e", "(", "M", ")", " ", "=", " ", "m", "a", "t", "_", "r", "o", "w", "3", "(", "M", ",", " ", "1", ".", "5", " ", "+", " ", "2", ")", " ", "+", " ", "3", " ", "*", " ", "0", ".", "2", "5">>
SrcInnerIf == <<"f", "(", "x", ")", " ", "=", " ", "1", " ", "+", " ", "(", "i", "f", " ", "x", " ", "<", " ", "0", " ", "t", "h", "e", "n", " ", "l", "e", "t", " ", "y", " ", "=", " ", "-", "x", " ", "i", "n", " ", "y", " ", "e", "l", "s", "e", " ", "x", ")">>
SrcEscName == <<"\\", "(", "x", ")", " ", "=", " ", "x">>

Programs ==
    {SrcDot3, SrcDot3Star, SrcLen, SrcScale, SrcTypes, SrcMat, SrcVec3, SrcScalar,
     SrcAscii, SrcDotParen, SrcClamp, SrcNorm, SrcBlock, SrcRows, SrcNoParen,
     SrcNoClose, SrcOpenExpr, SrcBadThen, SrcJunk, SrcMin, SrcBadRange,
     SrcConsts, SrcIdxOne, SrcDotsName, SrcEscName,
     SrcInnerIf, SrcRowNest, SrcRowFrac, SrcSub}

Modes == {FLOAT, FIXED}
Suffixes == {<<>>, <<"_", "f", "x">>}

\* Code points of the source texts enumerated for the lexer
LexAlphabet == {NL, "(", ")", "[", "#", BSL, "^", "@", "a", "1", ".", " "}

\* All texts over alphabet of length at most n
Texts(alphabet, n) == UNION {[1..k -> alphabet] : k \in 0..n}

----------------------------------------------------------------------------
(* Specification of the driver on the programs *)

InitCommon ==
    /\ pos = 0
    /\ line = 1
    /\ col = 1
    /\ tokens = <<>>
    /\ bracket_depth = 0
    /\ paren_depth = 0
    /\ funcs = <<>>
    /\ raised = NoError
    /\ emit_int_context = FALSE
    /\ lines = <<>>
    /\ func_idx = 0
    /\ written = NoOutput
    /\ expr = None
    /\ indices = <<>>
    /\ terms = <<>>
    /\ expansion = <<>>
    /\ examples_dir = NoDir
    /\ NotStarted

Init ==
    /\ source \in Programs
    /\ mode \in Modes
    /\ suffix \in Suffixes
    /\ pc = "tokenize"
    /\ InitCommon

Next ==
    \/ TokenizeIter
    \/ TokenizeEOF
    \/ Parse
    \/ GenerateHeader
    \/ EmitFunc
    \/ WriteOutput

Spec == Init /\ [][Next]_vars

----------------------------------------------------------------------------
(* Specification of Lexer.tokenize on every short source text *)

\* before the lexer is constructed
InitLex ==
    /\ source = <<>>
    /\ mode = FLOAT
    /\ suffix = <<>>
    /\ pc = "new"
    /\ InitCommon

\* Lexer.__init__(source), for every short text
NewLexer ==
    /\ pc = "new"
    /\ source' \in Texts(LexAlphabet, MaxSrcLen)
    /\ pos' = 0
    /\ line' = 1
    /\ col' = 1
    /\ tokens' = <<>>
    /\ bracket_depth' = 0
    /\ paren_depth' = 0
    /\ pc' = "tokenize"
    /\ UNCHANGED <<lint_vars, raised, gen_vars, expand_vars>>

NextLex ==
    \/ NewLexer
    \/ TokenizeIter
    \/ TokenizeEOF

\* the loop of tokenize has an iteration to run
LoopRuns == pc = "tokenize" /\ pos < Len(source)

\* Lexer(source).tokenize() is sequential code: the constructor runs, the loop
\* takes its next iteration as long as it has one to run, and the function
\* returns when the loop has ended
SpecLex ==
    /\ InitLex /\ [][NextLex]_vars
    /\ ([]<>(pc # "new") \/ []<><<NewLexer>>_vars)
    /\ ([]<>(~LoopRuns) \/ []<><<TokenizeIter>>_vars)
    /\ WF_vars(TokenizeEOF)

----------------------------------------------------------------------------
(* Specification of generate_c on every short list of functions *)

\* the functions that Parser.parse returns for a program
funcs_of(src) == parse(tokenize(src)).node

SrcRow == <<"r", "(", "M", ")", " ", "=", " ", "m", "a", "t", "_", "r", "o", "w", "3", "(", "M", ",", " ", "1", ")">>
SrcTwo == <<"t", "w", "o", "(", "x", ")", " ", "=", " ", "x", " ", "*", " ", "2">>
SrcPick == <<"p", "i", "c", "k", "(", "M", ",", " ", "v", ")", " ", "=", " ", "m", "a", "t", "_", "r", "o", "w", "3", "(", "M", ",", " ", "2", ")", " ", "+", " ", "[", "v", "_", "i", " ", "*", " ", "2", " ", "|", " ", "i", " ", cpIn, " ", "x", "y", "z", "w", "]">>

FuncPool ==
    {funcs_of(s)[1] : s \in {SrcRow, SrcTwo, SrcPick, SrcClamp, SrcMin}}

FuncLists == UNION {[1..k -> FuncPool] : k \in 0..MaxFuncs}

InitGen ==
    /\ source = <<>>
    /\ pos = 0
    /\ line = 1
    /\ col = 1
    /\ tokens = <<>>
    /\ bracket_depth = 0
    /\ paren_depth = 0
    /\ funcs \in FuncLists
    /\ mode \in Modes
    /\ suffix \in Suffixes
    /\ pc = "generate_c"
    /\ raised = NoError
    /\ emit_int_context = FALSE
    /\ lines = <<>>
    /\ func_idx = 0
    /\ written = NoOutput
    /\ expr = None
    /\ indices = <<>>
    /\ terms = <<>>
    /\ expansion = <<>>
    /\ examples_dir = NoDir
    /\ NotStarted

NextGen ==
    \/ GenerateHeader
    \/ EmitFunc
    \/ WriteOutput

SpecGen == InitGen /\ [][NextGen]_vars

----------------------------------------------------------------------------
(* Specification of emit_sum / emit_comprehension on loop variables, range *)
(* descriptors and bodies                                                  *)

LoopVars == {<<"i">>, <<"x">>, <<"k">>, <<"(">>}

RangeDescriptors ==
    {<<"x", "y", "z">>, <<"x", "y", "z", "w">>, <<"k">>, <<"a", ".", ".", "b">>}
    \cup {str_of(lo) \o <<".", ".">> \o str_of(hi) : lo \in 0..MaxIndex, hi \in 0..MaxIndex}

\* bodies over the vectors a, b and the matrix M, written with the loop
\* variable v
Bodies(v) ==
    {IndexExpr(VarExpr(<<"a">>), VarExpr(v)),
     BinOpExpr(<<"*">>, IndexExpr(VarExpr(<<"a">>), VarExpr(v)), IndexExpr(VarExpr(<<"b">>), VarExpr(v))),
     BinOpExpr(<<"+">>, VarExpr(v), NumExpr(<<"1">>)),
     MatrixIndexExpr(VarExpr(<<"M">>), VarExpr(v), NumExpr(<<"0">>)),
     MatrixIndexExpr(VarExpr(<<"M">>), NumExpr(<<"1">>), VarExpr(v)),
     IndexExpr(VarExpr(<<"a">>), DotAccessExpr(VarExpr(v), <<"0", "f">>)),
     CallExpr(<<"m", "i", "n">>, <<IndexExpr(VarExpr(<<"a">>), VarExpr(v)), VarExpr(<<"k">>)>>),
     CallExpr(<<"m", "a", "t", "_", "r", "o", "w", "3">>, <<VarExpr(<<"M">>), VarExpr(v)>>),
     CallExpr(<<"m", "i", "n">>, <<VarExpr(v)>>),
     NumExpr(<<"2">>)}

Expansions ==
    UNION {{SumExpr(v, r, b) : r \in RangeDescriptors, b \in Bodies(v)}
           \cup {ComprehensionExpr(b, v, r) : r \in RangeDescriptors, b \in Bodies(v)}
           : v \in LoopVars}

InitExpand ==
    /\ source = <<>>
    /\ pos = 0
    /\ line = 1
    /\ col = 1
    /\ tokens = <<>>
    /\ bracket_depth = 0
    /\ paren_depth = 0
    /\ funcs = <<>>
    /\ mode \in Modes
    /\ suffix = <<>>
    /\ pc = "expand_range"
    /\ raised = NoError
    /\ emit_int_context = FALSE
    /\ lines = <<>>
    /\ func_idx = 0
    /\ written = NoOutput
    /\ expr \in Expansions
    /\ indices = <<>>
    /\ terms = <<>>
    /\ expansion = <<>>
    /\ examples_dir = NoDir
    /\ NotStarted

NextExpand ==
    \/ ExpandRange
    \/ ExpandIter
    \/ ExpandReturn

SpecExpand == InitExpand /\ [][NextExpand]_vars

----------------------------------------------------------------------------
(* Specification of check-math-usage.py on small directories of C files *)

CCode == <<"s", "i", "n", "f", "(", "x", ")", ";">>
CLineComment == <<"/", "/", " ", "s", "i", "n", "f", "(", "x", ")", "\n", "y", " ", "=", " ", "c", "o", "s", "f", " ", "(", "1", ")", ";">>
CBlockComment == <<"/", "*", " ", "a", "\n", "s", "i", "n", "f", "(", "\n", "*", "/", " ", "t", "a", "n", "f", "(", "1", ")", ";">>
CLiterals == <<"s", " ", "=", " ", "\"", "s", "q", "r", "t", "f", "(", "\"", ";", " ", "c", " ", "=", " ", "'", "\\", "'", "'", ";", " ", "f", "a", "b", "s", "f", "(", "1", ")", ";">>
CIncluded == <<"#", "i", "n", "c", "l", "u", "d", "e", " ", "\"", "b", "3", "d", "-", "m", "a", "t", "h", ".", "h", "\"", "\n", "b", "3", "d", "_", "s", "i", "n", "f", "(", "1", ")", ";">>
CNotIncluded == <<"b", "3", "d", "_", "s", "i", "n", "c", "o", "s", "f", "(", "1", ")", ";", " ", "s", "i", "n", "c", "o", "s", "f", "(", "2", ")", ";">>
CContinued == <<"s", " ", "=", " ", "\"", "a", " ", "\\", "\n", "s", "i", "n", "f", "(", "x", ")", "\"", ";">>
CMention == <<"/", "/", " ", "b", "3", "d", "_", "s", "i", "n", "f", "(", "1", ")">>
CIncludeTight == <<"#", "i", "n", "c", "l", "u", "d", "e", "<", "b", "3", "d", "-", "m", "a", "t", "h", ".", "h", ">", "\n", "b", "3", "d", "_", "c", "o", "s", "f", "(", "1", ")", ";">>
CClean == <<"i", "n", "t", " ", "x", ";">>
\* a page break (form feed) on a line of its own
CPageBreak == <<"i", "n", "t", " ", "a", ";", "\n">> \o <<FF>> \o <<"\n", "s", "i", "n", "f", "(", "1", ")", ";", "\n">>

FilePool ==
    {File(c) : c \in {CCode, CLineComment, CBlockComment, CLiterals, CIncluded, CNotIncluded,
                      CContinued, CMention, CIncludeTight, CClean, CPageBreak}}
    \cup {Unreadable}

Directories == {NoDir} \cup {Dir(fs) : fs \in UNION {[1..k -> FilePool] : k \in 0..MaxExamples}}

InitLint ==
    /\ source = <<>>
    /\ pos = 0
    /\ line = 1
    /\ col = 1
    /\ tokens = <<>>
    /\ bracket_depth = 0
    /\ paren_depth = 0
    /\ funcs = <<>>
    /\ mode = FLOAT
    /\ suffix = <<>>
    /\ pc = "main"
    /\ raised = NoError
    /\ emit_int_context = FALSE
    /\ lines = <<>>
    /\ func_idx = 0
    /\ written = NoOutput
    /\ expr = None
    /\ indices = <<>>
    /\ terms = <<>>
    /\ expansion = <<>>
    /\ examples_dir \in Directories
    /\ NotStarted

NextLint ==
    \/ Main
    \/ ReadText
    \/ StripLine
    \/ MatchLines
    \/ CountErrors
    \/ Summary

SpecLint == InitLint /\ [][NextLint]_vars

----------------------------------------------------------------------------
(* Specification of Lexer.tokenize and Parser.parse on one-line definitions
   whose body is an expression of interest *)

MaxIdentLen == 4

\* a base letter, the underscore, an index letter, a letter that is no index
\* and an index digit
IdentAlphabet == {"a", "_", "i", "n", "2"}

\* the texts that Lexer.tokenize reads as one word
Identifiers == {t \in Texts(IdentAlphabet, MaxIdentLen) : t # <<>> /\ t[1] # "2"}

SrcVecDot == <<"v", "(", ")", " ", "=", " ", "v", "e", "c", "_", "d", "o", "t">>
SrcUpN == <<"v", "(", ")", " ", "=", " ", "u", "p", "_", "n">>
SrcTwoSubs == <<"v", "(", ")", " ", "=", " ", "M", "_", "0", "_", "j">>
SrcSubCall == <<"v", "(", ")", " ", "=", " ", "a", "_", "i", "(", "2", ")">>

\* v() = SUM(i IN xyz) A op B add C
SumOperands == {<<"a", "_", "i">>, <<"2">>, <<"(", "a", " ", "+", " ", "1", ")">>}
MulOperators == {<<"*">>, <<"/">>, <<cpMidDot>>, <<cpTimes>>}
AddOperators == {<<"+">>, <<"-">>, <<"<">>, <<">", "=">>}
sum_program(A, op, B, add, C) ==
    <<"v", "(", ")", " ", "=", " ", cpSum, "(", "i", " ", cpIn, " ", "x", "y", "z", ")", " ">> \o A \o <<" ">> \o op \o <<" ">> \o B
        \o <<" ">> \o add \o <<" ">> \o C

SumPrograms ==
    {sum_program(A, op, B, add, <<"c">>) :
        A \in SumOperands, op \in MulOperators, B \in SumOperands, add \in AddOperators}

\* v() = let a = 1; b = value in body, with or without the binding of a,
\* with or without a let after the semicolon, with or without the in
LetValues == {<<"2">>, <<"x">>, <<"x", " ", "+", " ", "1">>}
LetBodies == {<<"a">>, <<"a", " ", "+", " ", "b">>, <<"-", "a">>, <<"(", "a", ")">>, <<"[", "a", ",", " ", "b", "]">>, <<"i", "f", " ", "a", " ", "<", " ", "b", " ", "t", "h", "e", "n", " ", "a", " ", "e", "l", "s", "e", " ", "b">>}
let_program(two, value, redundant, with_in, body) ==
    <<"v", "(", ")", " ", "=", " ", "l", "e", "t", " ">>
        \o (IF two THEN <<"a", " ", "=", " ", "1", ";", " ">> \o (IF redundant THEN <<"l", "e", "t", " ">> ELSE <<>>) ELSE <<>>)
        \o <<"b", " ", "=", " ">> \o value \o (IF with_in THEN <<" ", "i", "n", " ">> ELSE <<" ">>) \o body

LetPrograms ==
    {let_program(two, value, redundant, with_in, body) :
        two \in BOOLEAN, value \in LetValues, redundant \in BOOLEAN, with_in \in BOOLEAN,
        body \in LetBodies}

ExprPrograms ==
    {<<"v", "(", ")", " ", "=", " ">> \o id : id \in Identifiers}
        \cup {SrcVecDot, SrcUpN, SrcTwoSubs, SrcSubCall}
        \cup SumPrograms
        \cup LetPrograms

InitParse ==
    /\ source \in ExprPrograms
    /\ mode = FLOAT
    /\ suffix = <<>>
    /\ pc = "tokenize"
    /\ InitCommon

NextParse ==
    \/ TokenizeIter
    \/ TokenizeEOF
    \/ Parse

SpecParse == InitParse /\ [][NextParse]_vars

----------------------------------------------------------------------------
(* Specification of Parser.parse on token lists that end in EOF *)

MaxTail == 3

tok_of(type, value) == Token(type, value, 1, 1)

TokenAlphabet ==
    {tok_of("IDENT", <<"y">>), tok_of("LPAREN", <<"(">>), tok_of("RPAREN", <<")">>),
     tok_of("IN", <<cpIn>>), tok_of("THETA", <<cpTheta>>), tok_of("NEWLINE", <<NL>>),
     tok_of("PLUS", <<"+">>), tok_of("LBRACKET", <<"[">>)}

\* nothing, f ( ) = and f ( ) = x where
HeadDef ==
    <<tok_of("IDENT", <<"f">>), tok_of("LPAREN", <<"(">>), tok_of("RPAREN", <<")">>),
      tok_of("EQ", <<"=">>)>>
HeadWhere == HeadDef \o <<tok_of("IDENT", <<"x">>), tok_of("WHERE", <<"w", "h", "e", "r", "e">>)>>

TokenLists ==
    {head \o tail \o <<eof_token(1, 1)>> :
        head \in {<<>>, HeadDef, HeadWhere}, tail \in Texts(TokenAlphabet, MaxTail)}

\* Parser.__init__(tokens)
InitTokens ==
    /\ source = <<>>
    /\ mode = FLOAT
    /\ suffix = <<>>
    /\ pc = "parse"
    /\ pos = 0
    /\ line = 1
    /\ col = 1
    /\ tokens \in TokenLists
    /\ bracket_depth = 0
    /\ paren_depth = 0
    /\ funcs = <<>>
    /\ raised = NoError
    /\ emit_int_context = FALSE
    /\ lines = <<>>
    /\ func_idx = 0
    /\ written = NoOutput
    /\ expr = None
    /\ indices = <<>>
    /\ terms = <<>>
    /\ expansion = <<>>
    /\ examples_dir = NoDir
    /\ NotStarted

NextTokens == Parse

SpecTokens == InitTokens /\ [][NextTokens]_vars

----------------------------------------------------------------------------
(* Properties.  Text helpers used to state them. *)

endswith(s, tail) ==
    Len(s) >= Len(tail) /\ SubSeq(s, Len(s) - Len(tail) + 1, Len(s)) = tail

\* the text up to the first line break
first_line(text) ==
    IF \E i \in 1..Len(text) : text[i] = NL
    THEN SubSeq(text, 1, (CHOOSE i \in 1..Len(text) :
                             text[i] = NL /\ \A j \in 1..(i - 1) : text[j] # NL) - 1)
    ELSE text

\* the text generate_c produced for the i-th function (after the six lines
\* of the header, every function is followed by one empty line)
func_text(i) == lines[5 + 2 * i]

\* the run got past the parser
Parsed == pc \in {"generate_c", "emit_func", "done"}

\* positions of the token list where IDENT, the middle dot and IDENT follow
\* each other
dot_of_identifiers ==
    {k \in 1..(Len(tokens) - 2) :
        /\ tokens[k].type = "IDENT"
        /\ tokens[k + 1].type = "DOT" /\ tokens[k + 1].value = <<cpMidDot>>
        /\ tokens[k + 2].type = "IDENT"}

\* C1: in float mode with the empty suffix the definition
\* len(v) = SQRT(v . v) where v IN R^4 is emitted with the body
\* "return b3d_sqrtf(b3d_vec_dot(v, v));", and in every finished run a middle
\* dot between two identifiers l and r appears in the output as
\* b3d_vec_dot<suffix>(l, r).
C1_DotOfIdentifiersIsVecDot ==
    pc = "done" =>
        /\ (source = SrcLen /\ mode = FLOAT /\ suffix = <<>>) =>
              contains(written, <<" ", " ", " ", " ", "r", "e", "t", "u", "r", "n", " ", "b", "3", "d", "_", "s", "q", "r", "t", "f", "(", "b", "3", "d", "_", "v", "e", "c", "_", "d", "o", "t", "(", "v", ",", " ", "v", ")", ")", ";">>)
        /\ \A k \in dot_of_identifiers :
              contains(written, <<"b", "3", "d", "_", "v", "e", "c", "_", "d", "o", "t">> \o suffix \o <<"(">> \o tokens[k].value
                                \o <<",", " ">> \o tokens[k + 2].value \o <<")">>)

\* the C type the where-block of the token list declares for a parameter:
\* R^3 and R^4 are b3d_vec_t, R^4x4 is b3d_mat_t, Z is int, R and no
\* declaration are float
declared_c_type(toks, name) ==
    LET decl == {k \in 2..(Len(toks) - 2) :
                    /\ toks[k].type = "IDENT" /\ toks[k].value = name
                    /\ toks[k + 1].type = "IN"
                    /\ \E w \in 1..(k - 1) : toks[w].type = "WHERE"}
    IN  IF decl = {} THEN <<"f", "l", "o", "a", "t">>
        ELSE LET k == CHOOSE d \in decl : \A o \in decl : o <= d
                 t == toks[k + 2]
                 dim == IF k + 3 <= Len(toks) /\ toks[k + 3].type = "SUPERSCRIPT"
                        THEN toks[k + 3].value ELSE <<>>
             IN  IF t.type = "REAL" /\ dim \in {<<"3">>, <<"4">>} THEN <<"b", "3", "d", "_", "v", "e", "c", "_", "t">>
                 ELSE IF t.type = "REAL" /\ dim = <<"4", "x", "4">> THEN <<"b", "3", "d", "_", "m", "a", "t", "_", "t">>
                 ELSE IF t.type = "INT" /\ dim = <<>> THEN <<"i", "n", "t">>
                 ELSE <<"f", "l", "o", "a", "t">>

\* C2: for a program of one function, the parameter list of the emitted
\* signature gives every parameter the C type its where-block declaration
\* stands for: b3d_vec_t for R^3 and R^4, b3d_mat_t for R^4x4, int for Z,
\* float for R and for a parameter without declaration.
C2_ParamTypesFollowWhereBlock ==
    (pc = "done" /\ Len(funcs) = 1) =>
        LET f == funcs[1]
            params == [j \in 1..Len(f.params) |->
                          declared_c_type(tokens, f.params[j].name) \o <<" ">> \o f.params[j].name]
        IN  endswith(first_line(func_text(1)), <<"(">> \o join(<<",", " ">>, params) \o <<")">>)

\* C3: when the body of a function is a bare variable naming a parameter,
\* the return type of the FuncDef is vec4 if parse_type stored R3 or R4 for
\* that parameter, mat4 if it stored R4x4, and scalar otherwise.
C3_BareVariableReturnType ==
    Parsed =>
        \A i \in 1..Len(funcs) :
            LET f == funcs[i]
            IN  f.body.tag = "VarExpr" =>
                    \A j \in 1..Len(f.params) :
                        f.params[j].name = f.body.name =>
                            f.return_type =
                                (IF f.params[j].type_str \in {<<cpReal, "3">>, <<cpReal, "4">>}
                                 THEN <<"v", "e", "c", "4">>
                                 ELSE IF f.params[j].type_str = <<cpReal, "4", "x", "4">>
                                 THEN <<"m", "a", "t", "4">>
                                 ELSE <<"s", "c", "a", "l", "a", "r">>)

\* positions of the IDENT tokens of the list
idents(toks) == {k \in 1..Len(toks) : toks[k].type = "IDENT"}

\* the error state carries expected kind, actual kind, text, line and column
\* of the token tok
carries(err, kind, tok) ==
    /\ err.kind = "SyntaxError"
    /\ err.expected = kind
    /\ err.actual = tok.type
    /\ err.text = tok.value
    /\ err.line = tok.line
    /\ err.col = tok.col

\* C9: the parser skips the tokens before the first IDENT and takes that one
\* as the name of a function, after which "(" is expected: when the token
\* after it is no LPAREN, expect consumes a token of another kind and the run
\* ends raised with the expected kind and that token's kind, text, line and
\* column.  Every syntax error carries the data of a token of the list whose
\* kind differs from the expected one and is raised before generate_c has
\* produced a line; a raised run has written nothing and takes no further
\* step.
C9_ExpectMismatchIsFatal ==
    /\ pc \notin {"tokenize", "parse"} =>
          IF idents(tokens) = {} THEN pc # "raised"
          ELSE LET k == CHOOSE n \in idents(tokens) : \A o \in idents(tokens) : n <= o
               IN  tokens[k + 1].type # "LPAREN" =>
                       pc = "raised" /\ carries(raised, "LPAREN", tokens[k + 1])
    /\ raised.kind = "SyntaxError" =>
          /\ pc = "raised"
          /\ raised.expected # raised.actual
          /\ \E k \in 1..Len(tokens) : carries(raised, raised.expected, tokens[k])
          /\ funcs = <<>> /\ lines = <<>>
    /\ pc = "raised" => written = NoOutput /\ ~ENABLED Next

\* a run of the driver that ended in expect: the token after the function
\* name is "=" where "(" is expected
C9_Witness ==
    /\ pc = "raised"
    /\ source = SrcNoParen
    /\ raised.kind = "SyntaxError"
    /\ raised.expected = "LPAREN"
    /\ raised.actual = "EQ"
    /\ written = NoOutput

----------------------------------------------------------------------------
(* Lexer properties *)

\* the last token of the list is a NEWLINE that the step appended
appended_newline(before, after) ==
    Len(after) = Len(before) + 1 /\ after[Len(after)].type = "NEWLINE"

\* C6: a step of the tokenize loop appends a NEWLINE token only when
\* bracket_depth and paren_depth are both 0 (and leaves them 0); a step that
\* ends on a newline character while one of them is positive appends
\* nothing, and one that ends on a newline character while both are 0 appends
\* the NEWLINE token.
C6_NewlineOnlyAtDepthZero ==
    [][TokenizeIter =>
          /\ appended_newline(tokens, tokens') =>
                /\ bracket_depth = 0 /\ paren_depth = 0
                /\ bracket_depth' = 0 /\ paren_depth' = 0
          /\ (pos' > pos /\ source[pos'] = NL) =>
                IF bracket_depth > 0 \/ paren_depth > 0
                THEN tokens' = tokens
                ELSE appended_newline(tokens, tokens')]_vars

\* a newline character was read inside an open parenthesis and no NEWLINE
\* token is in the list
C6_Witness ==
    /\ pc = "tokenize"
    /\ paren_depth > 0
    /\ pos >= 2
    /\ source[pos] = NL
    /\ \A k \in 1..Len(tokens) : tokens[k].type # "NEWLINE"

\* positions of the EOF tokens of the list
eofs(toks) == {k \in 1..Len(toks) : toks[k].type = "EOF"}

\* C7: every iteration of the tokenize loop strictly advances pos (the one
\* about to run, and every one taken), pos never passes the end of the
\* source, nothing is raised, the loop ends, and the list returned holds
\* exactly one EOF token, its last element (no EOF token is in the list
\* before the loop has ended).
C7_TokenizeTerminates ==
    /\ [](LoopRuns => tokenize_iteration(source, lexer_state).pos > pos)
    /\ [][TokenizeIter => pos' > pos]_vars
    /\ [](pos <= Len(source) /\ raised = NoError)
    /\ <>(pc = "parse")
    /\ [](IF pc = "parse" THEN eofs(tokens) = {Len(tokens)} ELSE eofs(tokens) = {})

\* tokenize returned on a text of an unknown character, a lone "^" and a
\* lone backslash
C7_Witness ==
    /\ pc = "parse"
    /\ source = <<"@", "^", BSL>>
    /\ pos = 3
    /\ tokens[Len(tokens)].type = "EOF"

\* 1-based line and column of the i-th code point of src (i may be
\* Len(src) + 1: the position just past the end)
line_of(src, i) == 1 + Cardinality({j \in 1..(i - 1) : src[j] = NL})

col_of(src, i) ==
    LET breaks == {j \in 1..(i - 1) : src[j] = NL}
    IN  IF breaks = {} THEN i
        ELSE i - (CHOOSE j \in breaks : \A o \in breaks : o <= j)

\* the code points of src at (line, col)
at_position(src, ln, cl) ==
    {i \in 1..Len(src) : line_of(src, i) = ln /\ col_of(src, i) = cl}

\* ch can be the first code point of the token: the token's text starts with
\* it, but an escape starts with the backslash, a "^" power with the "^", and
\* subscripts and superscripts are stored as their ASCII counterparts
first_code_point(tok, ch) ==
    IF ch = BSL THEN tok.type = "IDENT" \/ (Len(tok.value) > 0 /\ tok.value[1] = BSL)
    ELSE IF tok.type = "SUPERSCRIPT" THEN ch = "^" \/ ch \in DOMAIN SUPERSCRIPTS
    ELSE IF tok.type = "SUBSCRIPT" THEN ch \in DOMAIN SUBSCRIPTS
    ELSE Len(tok.value) > 0 /\ tok.value[1] = ch

\* (line, col) of the token is the position of its first code point, which
\* lies in the part of the source already read
points_at_first_code_point(tok) ==
    \E i \in at_position(source, tok.line, tok.col) :
        i <= pos /\ first_code_point(tok, source[i])

\* C8 as stated: every token of the list, the EOF token included, carries
\* the position of an existing code point of the source, its first one.
C8_EveryTokenAtCodePoint ==
    \A k \in 1..Len(tokens) :
        at_position(source, tokens[k].line, tokens[k].col) # {}

\* C8, amended: every token but EOF carries the 1-based (line, col) of an
\* existing code point, the first code point of that token, and the tokens
\* are in the order of their positions; the EOF token carries the position
\* just past the last code point of the source, where no code point is.
C8_TokenPositions ==
    /\ \A k \in 1..Len(tokens) :
          IF tokens[k].type = "EOF"
          THEN /\ tokens[k].line = line_of(source, Len(source) + 1)
               /\ tokens[k].col = col_of(source, Len(source) + 1)
               /\ at_position(source, tokens[k].line, tokens[k].col) = {}
          ELSE points_at_first_code_point(tokens[k])
    /\ \A k \in 1..(Len(tokens) - 1) :
          \/ tokens[k].line < tokens[k + 1].line
          \/ tokens[k].line = tokens[k + 1].line /\ tokens[k].col < tokens[k + 1].col

\* a text of two lines was tokenized: the ".." of its second line, a token
\* of two code points, and the EOF token past the end
C8_Witness ==
    /\ pc = "parse"
    /\ Len(tokens) = 3
    /\ tokens[2].type = "IDENT" /\ tokens[2].value = <<".", ".">>
    /\ tokens[2].line = 2 /\ tokens[2].col = 1
    /\ tokens[3].type = "EOF" /\ tokens[3].col = 3

----------------------------------------------------------------------------
(* Properties of the expansion of sums and comprehensions *)

\* w occurs in text as a whole word (a \b on both sides)
whole_word_in(text, w) ==
    \E i \in 1..(Len(text) - Len(w) + 1) :
        /\ SubSeq(text, i, i + Len(w) - 1) = w
        /\ i = 1 \/ ~is_word(text[i - 1])
        /\ i + Len(w) > Len(text) \/ ~is_word(text[i + Len(w)])

\* an identifier: word characters, the first one no digit
is_identifier(w) ==
    /\ Len(w) > 0
    /\ \A i \in 1..Len(w) : is_word(w[i])
    /\ w[1] \notin AsciiDigit

\* nesting depth of text[i]: brackets opened and not closed before it
depth_at(text, i) ==
    Cardinality({j \in 1..(i - 1) : text[j] \in {"(", "[", "{"}})
    - Cardinality({j \in 1..(i - 1) : text[j] \in {")", "]", "}"}})

\* number of occurrences of sep in text that lie outside every bracket
separators(text, sep) ==
    Cardinality({i \in 1..Len(text) : depth_at(text, i) = 0 /\ starts_at(text, i, sep)})

\* number of body instantiations in the text of an expanded Sum
\* "(t1) + (t2) + ..." or Comprehension "(b3d_vec_t){e1, e2, ...}"
instantiations(text, tag) ==
    IF tag = "SumExpr"
    THEN (IF text = <<>> THEN 0 ELSE 1 + separators(text, <<" ", "+", " ">>))
    ELSE LET inner == SubSeq(text, Len(<<"(", "b", "3", "d", "_", "v", "e", "c", "_", "t", ")", "{">>) + 1, Len(text) - 1)
         IN  IF inner = <<>> THEN 0 ELSE 1 + separators(inner, <<",", " ">>)

\* number of indices of a range descriptor: 3 for xyz, 4 for xyzw, end - start
\* (if positive) for start..end, 1 for a single name
range_length(range_str) ==
    IF range_str = <<"x", "y", "z">> THEN 3
    ELSE IF range_str = <<"x", "y", "z", "w">> THEN 4
    ELSE IF contains(range_str, <<".", ".">>)
    THEN LET k == CHOOSE n \in 1..Len(range_str) : starts_at(range_str, n, <<".", ".">>)
             start == int_of(SubSeq(range_str, 1, k - 1))
             end == int_of(SubSeq(range_str, k + 2, Len(range_str)))
         IN  IF end > start THEN end - start ELSE 0
    ELSE 1

\* the words an index value brings into the text: the value itself and, for
\* 0..3, the component it is rewritten to
index_words(idxs) ==
    {idxs[n] : n \in 1..Len(idxs)}
    \cup {<<(<<"x", "y", "z", "w">>)[n]>> : n \in {m \in 1..4 : \E o \in 1..Len(idxs) : idxs[o] = str_of(m - 1)}}

\* C4 as stated: every finished expansion holds len(range_indices)
\* instantiations of the body and no whole-word occurrence of the loop
\* variable, whatever the loop variable is.
C4_NoLoopVariableLeft ==
    pc = "expanded" =>
        /\ instantiations(expansion, expr.tag) = range_length(expr.range_expr)
        /\ ~whole_word_in(expansion, expr.var)

\* C4, amended: every finished expansion holds exactly len(range_indices)
\* instantiations of the body; it holds no whole-word occurrence of the loop
\* variable when the loop variable is an identifier that is neither an index
\* value of the range, nor the component x, y, z, w that the index value 0,
\* 1, 2, 3 is rewritten to, nor (in a Comprehension) the type name b3d_vec_t.
C4_Expansion ==
    pc = "expanded" =>
        /\ Len(indices) = range_length(expr.range_expr)
        /\ Len(terms) = Len(indices)
        /\ instantiations(expansion, expr.tag) = Len(indices)
        /\ (/\ is_identifier(expr.var)
            /\ expr.var \notin index_words(indices)
            /\ expr.tag = "ComprehensionExpr" => expr.var # <<"b", "3", "d", "_", "v", "e", "c", "_", "t">>)
           => ~whole_word_in(expansion, expr.var)

\* the sum over i in xyz of a[i] * b[i] was expanded into three terms
C4_Witness ==
    /\ pc = "expanded"
    /\ expr = SumExpr(<<"i">>, <<"x", "y", "z">>, BinOpExpr(<<"*">>, IndexExpr(VarExpr(<<"a">>), VarExpr(<<"i">>)),
                                                 IndexExpr(VarExpr(<<"b">>), VarExpr(<<"i">>))))
    /\ Len(terms) = 3
    /\ instantiations(expansion, "SumExpr") = 3

\* C5: in fixed mode an expanded Sum of two or more terms is a nest of
\* B3D_FP_ADD(...) calls and holds no infix " + ".
C5_FixedSumUsesFpAdd ==
    (pc = "expanded" /\ mode = FIXED /\ expr.tag = "SumExpr" /\ Len(terms) >= 2) =>
        /\ startswith(expansion, <<"B", "3", "D", "_", "F", "P", "_", "A", "D", "D", "(">>)
        /\ ~contains(expansion, <<" ", "+", " ">>)

----------------------------------------------------------------------------
(* Properties of generate_c *)

\* what emit_func leaves behind is what a new generator would have produced:
\* the text emitted for a function is the text a new generator emits for it,
\* so equal functions of the list have equal texts whatever was emitted in
\* between, and what is written is those texts joined
emitted_without_state ==
    /\ Len(lines) = 6 + 2 * func_idx
    /\ \A i \in 1..func_idx :
          func_text(i) = emit_func(funcs[i], mode, suffix, FALSE).code
    /\ \A i, j \in 1..func_idx :
          funcs[i] = funcs[j] => func_text(i) = func_text(j)
    /\ pc = "done" => written = join(<<NL>>, lines)

----------------------------------------------------------------------------
(* C11: suffix independence *)

\* str.replace(old, new) on text: the occurrences of old are taken from left
\* to right without overlap; the empty text occurs before every character
\* and at the end
str_replace(text, old, new) ==
    IF old = <<>>
    THEN concat_range([k \in 1..(2 * Len(text) + 1) |->
                          IF k % 2 = 1 THEN new ELSE <<text[k \div 2]>>],
                      1, 2 * Len(text) + 1)
    ELSE re_sub(old, new, text, "plain")

\* a code point that no source text, name or suffix holds
cpMark == "U+E000"

\* the suffixes the output is generated again with
OtherSuffixes == Suffixes \cup {<<"_", "q">>, <<"f">>}

\* the suffix of the run occurs in its output at the places where the
\* generator appended it and nowhere else (the empty text occurs everywhere)
suffix_only_appended ==
    /\ suffix # <<>>
    /\ str_replace(written, suffix, <<cpMark>>) = generate_c(funcs, mode, <<cpMark>>).code

\* C11 as stated: for every function list, mode and suffixes S1 and S2,
\* replacing S1 by S2 in the output generated with S1 gives the output
\* generated with S2
C11_AnySuffixReplaced ==
    pc = "done" =>
        \A s2 \in OtherSuffixes :
            str_replace(written, suffix, s2) = generate_c(funcs, mode, s2).code

\* C11 amended: when the suffix S1 of the run occurs in the output only where
\* the generator appended it (which excludes the empty suffix), replacing S1
\* by any suffix S2 in the output gives the output generated with S2
C11_SuffixIndependence ==
    (pc = "done" /\ suffix_only_appended) =>
        \A s2 \in OtherSuffixes :
            str_replace(written, suffix, s2) = generate_c(funcs, mode, s2).code

\* a run with the suffix _fx whose output names a function and calls another
\* one with the suffix, and differs from the output without suffix
C11_Witness ==
    /\ pc = "done"
    /\ suffix = <<"_", "f", "x">>
    /\ suffix_only_appended
    /\ contains(written, <<"b", "3", "d", "_", "r", "_", "f", "x", "(", "f", "l", "o", "a", "t", " ", "M", ")">>)
    /\ contains(written, <<"b", "3", "d", "_", "m", "a", "t", "_", "r", "o", "w", "3", "_", "f", "x", "(", "M", ",", " ", "1", ")">>)
    /\ written # generate_c(funcs, mode, <<>>).code
    /\ str_replace(written, suffix, <<>>) = generate_c(funcs, mode, <<>>).code

----------------------------------------------------------------------------
(* C12: mode swap *)

\* text without the characters of chars
without(text, chars) ==
    concat_range([i \in 1..Len(text) |-> IF text[i] \in chars THEN <<>> ELSE <<text[i]>>],
                 1, Len(text))

\* the fixed-point spellings of the constants and of the header's mode word
\* replaced by the floating-point ones
float_spellings(text) ==
    str_replace(str_replace(str_replace(str_replace(text,
        <<"B", "3", "D", "_", "F", "P", "_", "P", "I">>, <<"B", "3", "D", "_", "P", "I">>),
        <<"B", "3", "D", "_", "F", "P", "_", "E", "P", "S", "I", "L", "O", "N">>, <<"B", "3", "D", "_", "E", "P", "S", "I", "L", "O", "N">>),
        <<"B", "3", "D", "_", "F", "P", "_", "O", "N", "E">>, <<"1", ".", "0", "f">>),
        <<"f", "i", "x", "e", "d", "-", "p", "o", "i", "n", "t">>, <<"f", "l", "o", "a", "t", "i", "n", "g", "-", "p", "o", "i", "n", "t">>)

\* what is left of an output when everything that the two modes are allowed
\* to spell differently is taken out: the constants and the mode word get
\* one spelling (ZERO is 0.0f or 0: the ending .0f is dropped everywhere),
\* and the names of the B3D_FP_* operations, the operator characters and the
\* parentheses, commas and blanks of an infix expression or a macro call are
\* removed
mode_neutral(text) ==
    without(
        str_replace(str_replace(str_replace(str_replace(str_replace(float_spellings(text),
            <<"B", "3", "D", "_", "F", "P", "_", "A", "D", "D">>, <<>>),
            <<"B", "3", "D", "_", "F", "P", "_", "S", "U", "B">>, <<>>),
            <<"B", "3", "D", "_", "F", "P", "_", "M", "U", "L">>, <<>>),
            <<"B", "3", "D", "_", "F", "P", "_", "D", "I", "V">>, <<>>),
            <<".", "0", "f">>, <<>>),
        {"(", ")", ",", " ", "+", "-", "*", "/"})

other_mode(m) == IF m = FLOAT THEN FIXED ELSE FLOAT

\* C12: the float-mode and the fixed-mode output of the same functions and
\* suffix differ only in the lowering of + - * /, in the text of the
\* constants PI, EPSILON, ZERO, ONE and in the mode word of the header: names,
\* types, parameter lists, declarations, block structure and all other text
\* are the same
C12_ModeSwap ==
    pc = "done" =>
        mode_neutral(written) = mode_neutral(generate_c(funcs, other_mode(mode), suffix).code)

----------------------------------------------------------------------------
(* C13: the shape of the output *)

\* text.split("\n"): the lines of a text
line_breaks(text) == {i \in 1..Len(text) : text[i] = NL}

\* the k-th smallest element of a set of numbers
nth(S, k) == CHOOSE x \in S : Cardinality({y \in S : y < x}) = k - 1

split_lines(text) ==
    LET brk == line_breaks(text)
        n == Cardinality(brk)
        from(k) == IF k = 1 THEN 1 ELSE nth(brk, k - 1) + 1
        to(k) == IF k = n + 1 THEN Len(text) ELSE nth(brk, k) - 1
    IN  [k \in 1..(n + 1) |-> SubSeq(text, from(k), to(k))]

\* the function definitions of the input, read off the token stream without
\* the parser: a name, a parenthesised list of parameter names and `=`
is_head(toks, k) ==
    /\ k + 1 <= Len(toks)
    /\ toks[k].type = "IDENT"
    /\ toks[k + 1].type = "LPAREN"
    /\ \E j \in (k + 2)..(Len(toks) - 1) :
          /\ toks[j].type = "RPAREN"
          /\ toks[j + 1].type = "EQ"
          /\ \A i \in (k + 2)..(j - 1) : toks[i].type \in {"IDENT", "COMMA", "THETA"}

definitions(toks) == {k \in 1..Len(toks) : is_head(toks, k)}

\* the lines of the output that open a C function
function_lines(out) == {k \in 1..Len(out) : startswith(out[k], <<"s", "t", "a", "t", "i", "c", " ", "i", "n", "l", "i", "n", "e", " ">>)}

\* the output starts with the comment block, which names the mode
header_names_mode(out, m) ==
    /\ Len(out) >= 6
    /\ startswith(out[1], <<"/", "*", " ", "A", "u", "t", "o", "-", "g", "e", "n", "e", "r", "a", "t", "e", "d", " ", "f", "r", "o", "m", " ", "m", "a", "t", "h", ".", "d", "s", "l">>)
    /\ \E k \in 1..5 : out[k] = <<" ", "*", "/">> /\ out[k + 1] = <<>>
                        /\ \A j \in 1..(k - 1) : ~contains(out[j], <<"*", "/">>)
    /\ (\E k \in 1..5 : contains(out[k], <<"f", "l", "o", "a", "t", "i", "n", "g", "-", "p", "o", "i", "n", "t">>)) <=> m = FLOAT
    /\ (\E k \in 1..5 : contains(out[k], <<"f", "i", "x", "e", "d", "-", "p", "o", "i", "n", "t">>)) <=> m = FIXED

\* the k-th function of the output is the k-th definition of the input, and
\* it ends with `}` and an empty line just before the next function or the
\* end of the output
function_per_definition(out, toks, sfx) ==
    LET fl == function_lines(out)
        ds == definitions(toks)
        n == Cardinality(ds)
        next(k) == IF k = n THEN Len(out) + 1 ELSE nth(fl, k + 1)
    IN  /\ Cardinality(fl) = n
        /\ n > 0 => nth(fl, 1) = 7
        /\ \A k \in 1..n :
              /\ contains(out[nth(fl, k)],
                          <<" ", "b", "3", "d", "_">> \o toks[nth(ds, k)].value \o sfx \o <<"(">>)
              /\ out[next(k) - 1] = <<>>
              /\ out[next(k) - 2] = <<"}">>

\* C13: the output begins with the comment block `/* Auto-generated from
\* math.dsl` that names the mode (floating-point or fixed-point), followed
\* by exactly one `static inline` function for each function definition of
\* the input, in source order, each followed by an empty line: no definition
\* is dropped and none is emitted twice.
C13_OutputShape ==
    pc = "done" =>
        /\ header_names_mode(split_lines(written), mode)
        /\ function_per_definition(split_lines(written), tokens, suffix)

\* a finished run on three definitions, two of them of the same name
C13_Witness ==
    /\ pc = "done"
    /\ source = SrcRows
    /\ Cardinality(definitions(tokens)) = 3
    /\ Cardinality(function_lines(split_lines(written))) = 3
    /\ suffix = <<"_", "f", "x">>
    /\ mode = FIXED

----------------------------------------------------------------------------
(* C14: range descriptors *)

\* the union of a sequence of sets
RECURSIVE union_of(_, _)
union_of(sets, i) == IF i > Len(sets) THEN {} ELSE sets[i] \cup union_of(sets, i + 1)

\* the expressions directly below a node of the AST
children(e) ==
    CASE e.tag = "BinOpExpr" -> <<e.left, e.right>>
      [] e.tag \in {"UnaryExpr", "NormExpr"} -> <<e.operand>>
      [] e.tag = "CallExpr" -> e.args
      [] e.tag = "IndexExpr" -> <<e.base, e.index>>
      [] e.tag = "MatrixIndexExpr" -> <<e.base, e.row, e.col>>
      [] e.tag = "DotAccessExpr" -> <<e.base>>
      [] e.tag \in {"SumExpr", "ComprehensionExpr"} -> <<e.body>>
      [] e.tag = "VectorExpr" -> e.elements
      [] e.tag = "MatrixExpr" -> concat_range(e.rows, 1, Len(e.rows))
      [] e.tag = "LetExpr" -> [k \in 1..Len(e.bindings) |-> e.bindings[k][2]] \o <<e.body>>
      [] e.tag = "IfExpr" -> <<e.cond, e.then_expr, e.else_expr>>
      [] OTHER -> <<>>

\* every node of an expression, the expression itself included
RECURSIVE nodes(_)
nodes(e) ==
    LET c == children(e)
    IN  {e} \cup union_of([k \in 1..Len(c) |-> nodes(c[k])], 1)

\* the Sum and Comprehension nodes of a list of functions
ranged_nodes(fs) ==
    UNION {{n \in nodes(fs[k].body) : n.tag \in {"SumExpr", "ComprehensionExpr"}} : k \in 1..Len(fs)}

\* a component sequence, or a..b with non-negative integers a < b
descriptor(range_str) ==
    \/ range_str \in {<<"x", "y", "z">>, <<"x", "y", "z", "w">>}
    \/ /\ contains(range_str, <<".", ".">>)
       /\ LET parts == split_dotdot(range_str, 1, <<>>)
          IN  /\ Len(parts) = 2
              /\ int_ok(parts[1])
              /\ int_ok(parts[2])
              /\ int_of(parts[1]) < int_of(parts[2])

\* C14: for every token list the parser accepts, every Sum and
\* Comprehension node carries a range descriptor the generator recognizes:
\* CodeGen.parse_range derives a non-empty index list from it and raises no
\* error.
C14_RangesRecognized ==
    Parsed =>
        \A n \in ranged_nodes(funcs) :
            /\ CodeGen_parse_range(n.range_expr).ok
            /\ CodeGen_parse_range(n.range_expr).indices # <<>>
            /\ descriptor(n.range_expr)

----------------------------------------------------------------------------
(* C15: function names *)

\* non-empty text made of identifier characters only
identifier_text(w) == Len(w) > 0 /\ \A i \in 1..Len(w) : is_word(w[i])

\* C15: every FuncDef the parser returns has a name that is a non-empty
\* identifier.
C15_FunctionNamesAreIdentifiers ==
    Parsed => \A k \in 1..Len(funcs) : identifier_text(funcs[k].name)

----------------------------------------------------------------------------
(* C16: block form and simple form *)

\* some conditional of the expression has a branch that contains a let
conditional_with_let(e) ==
    \E n \in nodes(e) :
        /\ n.tag = "IfExpr"
        /\ \E b \in nodes(n.then_expr) \cup nodes(n.else_expr) : b.tag = "LetExpr"

\* the let bindings at the top of the body, which both forms declare
RECURSIVE outer_bindings(_)
outer_bindings(e) ==
    IF e.tag = "LetExpr" THEN e.bindings \o outer_bindings(e.body) ELSE <<>>

\* the number of places where pat occurs in text
occurrences(text, pat) == Cardinality({i \in 1..Len(text) : starts_at(text, i, pat)})

\* explicit if/else statements
block_form(text) == contains(text, <<")", " ", "{">> \o <<NL>>) /\ contains(text, <<"}", " ", "e", "l", "s", "e", " ", "{">> \o <<NL>>)

\* declarations of the outer lets and one return statement
simple_form(text, body) ==
    /\ occurrences(text, <<"r", "e", "t", "u", "r", "n", " ">>) = 1
    /\ ~contains(text, <<"}", " ", "e", "l", "s", "e", " ", "{">>)
    /\ \A k \in 1..Len(outer_bindings(body)) :
          contains(text, <<" ">> \o outer_bindings(body)[k][1] \o <<" ", "=", " ">>)

\* C16: emit_func uses block form (explicit if/else statements) if and only
\* if some conditional in the function body has a branch that contains a
\* let-binding; otherwise it uses simple form: the outer lets as declarations
\* followed by a single return statement.
C16_BlockFormIffConditionalLet ==
    pc = "done" =>
        \A k \in 1..Len(funcs) :
            /\ block_form(func_text(k)) <=> conditional_with_let(funcs[k].body)
            /\ ~conditional_with_let(funcs[k].body) => simple_form(func_text(k), funcs[k].body)

----------------------------------------------------------------------------
(* C17: numeric literals *)

\* bodies built from literals, plain variables, operators, calls and
\* conditionals: the only digits of their C text come from the literals
RECURSIVE plain(_)
plain(e) ==
    CASE e.tag = "NumExpr" -> TRUE
      [] e.tag = "VarExpr" -> e.name \notin {<<"P", "I">>, <<"E", "P", "S", "I", "L", "O", "N">>, <<"Z", "E", "R", "O">>, <<"O", "N", "E">>}
      [] e.tag = "CallExpr" -> e.func # <<"k", "r", "o", "n", "e", "c", "k", "e", "r">> /\ \A k \in 1..Len(e.args) : plain(e.args[k])
      [] e.tag \in {"BinOpExpr", "UnaryExpr", "IfExpr"} ->
            \A k \in 1..Len(children(e)) : plain(children(e)[k])
      [] OTHER -> FALSE

\* how the literal is to be written inside and outside of the second
\* argument of mat_row3
literal_form(value, inside) ==
    IF inside THEN before_dot(value, 1)
    ELSE IF "." \in {value[i] : i \in 1..Len(value)} THEN value \o <<"f">>
    ELSE value \o <<".", "0", "f">>

\* the literals of a plain expression in the order of the text, each as it is
\* to be written; inside: below the second argument of a mat_row3 call
RECURSIVE expected_literals(_, _)
expected_literals(e, inside) ==
    CASE e.tag = "NumExpr" -> <<literal_form(e.value, inside)>>
      [] e.tag = "CallExpr" ->
            concat_range([k \in 1..Len(e.args) |->
                             expected_literals(e.args[k],
                                               inside \/ (e.func = <<"m", "a", "t", "_", "r", "o", "w", "3">> /\ k = 2))],
                         1, Len(e.args))
      [] OTHER ->
            concat_range([k \in 1..Len(children(e)) |-> expected_literals(children(e)[k], inside)],
                         1, Len(children(e)))

\* the numbers written in a C text: a digit that does not continue a word or a
\* number, with the digits, periods and f that follow it
number_chars == AsciiDigit \cup {".", "f"}

number_starts(text) ==
    {i \in 1..Len(text) :
        /\ text[i] \in AsciiDigit
        /\ i > 1 => ~is_word(text[i - 1]) /\ text[i - 1] # "."}

number_at(text, i) ==
    LET stop == IF \E j \in i..Len(text) : text[j] \notin number_chars
                THEN CHOOSE j \in i..Len(text) :
                        /\ text[j] \notin number_chars
                        /\ \A h \in i..(j - 1) : text[h] \in number_chars
                ELSE Len(text) + 1
    IN  SubSeq(text, i, stop - 1)

written_literals(text) ==
    [k \in 1..Cardinality(number_starts(text)) |-> number_at(text, nth(number_starts(text), k))]

\* C17: every numeric literal inside the second argument of a mat_row3 call,
\* at any nesting depth, is emitted without fractional part and without f,
\* and every numeric literal anywhere else is emitted as <digits>.0f or
\* <digits>.<frac>f.
C17_LiteralEmission ==
    pc = "done" =>
        \A k \in 1..Len(funcs) :
            plain(funcs[k].body) =>
                written_literals(func_text(k)) = expected_literals(funcs[k].body, FALSE)

----------------------------------------------------------------------------
(* C18: subscripts in identifiers *)

\* the subscript characters of the source that follow a character of an
\* identifier and that the lexer has consumed
subscripts_in_identifiers ==
    {i \in 2..Len(source) :
        /\ source[i] \in DOMAIN SUBSCRIPTS
        /\ is_word(source[i - 1])
        /\ i <= pos}

\* C18: a subscript character after the first character of an identifier is
\* rewritten: the IDENT token holds `_` and the mapped ASCII character in
\* its place, and no token text holds the raw subscript character.
C18_SubscriptsRewritten ==
    /\ \A k \in 1..Len(tokens) :
          \A i \in 1..Len(tokens[k].value) : tokens[k].value[i] \notin DOMAIN SUBSCRIPTS
    /\ \A i \in subscripts_in_identifiers :
          \E k \in 1..Len(tokens) :
              /\ tokens[k].type = "IDENT"
              /\ contains(tokens[k].value, <<"_", SUBSCRIPTS[source[i]]>>)

----------------------------------------------------------------------------
(* C19: lint masking *)

\* The characters of a C text that are code: outside of // comments, /* */
\* comments, string literals and character literals.  A backslash at the end
\* of a line continues a // comment or a literal on the next line; a literal
\* without closing quote ends with its line.  st is the lexical state at
\* text[i].
RECURSIVE code_positions(_, _, _)
code_positions(text, i, st) ==
    IF i > Len(text) THEN {}
    ELSE CASE st = "code" ->
                 IF starts_at(text, i, <<"/", "/">>) THEN code_positions(text, i + 2, "line")
                 ELSE IF starts_at(text, i, <<"/", "*">>) THEN code_positions(text, i + 2, "block")
                 ELSE IF text[i] = "\"" THEN code_positions(text, i + 1, "string")
                 ELSE IF text[i] = "'" THEN code_positions(text, i + 1, "char")
                 ELSE {i} \cup code_positions(text, i + 1, "code")
           [] st = "line" ->
                 IF text[i] = BSL THEN code_positions(text, i + 2, "line")
                 ELSE IF text[i] = NL THEN code_positions(text, i + 1, "code")
                 ELSE code_positions(text, i + 1, "line")
           [] st = "block" ->
                 IF starts_at(text, i, <<"*", "/">>) THEN code_positions(text, i + 2, "code")
                 ELSE code_positions(text, i + 1, "block")
           [] OTHER ->
                 IF text[i] = BSL THEN code_positions(text, i + 2, st)
                 ELSE IF text[i] = NL THEN code_positions(text, i + 1, "code")
                 ELSE IF text[i] = (IF st = "string" THEN "\"" ELSE "'")
                 THEN code_positions(text, i + 1, "code")
                 ELSE code_positions(text, i + 1, st)

\* a call of name starts at text[i]: the name, not the end of a longer
\* identifier, followed by `(`
call_at(text, i, name) ==
    /\ starts_at(text, i, name)
    /\ i = 1 \/ ~ascii_word(text[i - 1])
    /\ open_paren_at(text, i + Len(name))

\* the calls of name in the code of line lineno
code_calls(text, lineno, name) ==
    {i \in code_positions(text, 1, "code") : line_of(text, i) = lineno /\ call_at(text, i, name)}

\* the offenses reported for name on line lineno
reported(errs, lineno, name) ==
    {k \in 1..Len(errs) : errs[k][1] = lineno /\ errs[k][2] = name}

forbidden == {FORBIDDEN_FUNCS[f] : f \in 1..Len(FORBIDDEN_FUNCS)}

\* C19: a forbidden name followed by `(` that lies inside a // comment, a
\* /* */ comment, a string literal or a character literal is never
\* reported by check_file; only occurrences in code text are reported, each
\* with its 1-based line number.
C19_MaskedNeverReported ==
    pc = "checked" =>
        \A lineno \in 1..(Len(content) + 1) : \A name \in forbidden :
            Cardinality(reported(errors, lineno, name))
                <= Cardinality(code_calls(content, lineno, name))

----------------------------------------------------------------------------
(* C20: lint missing-include *)

\* blanks or none
RECURSIVE skip_blanks(_, _)
skip_blanks(text, i) ==
    IF i <= Len(text) /\ is_space(text[i]) THEN skip_blanks(text, i + 1) ELSE i

\* the text contains a call b3d_<mathfn>(
contains_wrapper_call(text) ==
    \E i \in 1..Len(text) : \E name \in forbidden :
        /\ starts_at(text, i, <<"b", "3", "d", "_">> \o name)
        /\ i = 1 \/ ~is_word(text[i - 1])
        /\ open_paren_at(text, i + 4 + Len(name))

\* the text contains an #include of b3d-math.h, as <b3d-math.h> or "b3d-math.h"
includes_header(text) ==
    \E i \in 1..Len(text) :
        /\ starts_at(text, i, <<"#", "i", "n", "c", "l", "u", "d", "e">>)
        /\ \/ starts_at(text, skip_blanks(text, i + 8), <<"<", "b", "3", "d", "-", "m", "a", "t", "h", ".", "h", ">">>)
           \/ starts_at(text, skip_blanks(text, i + 8), <<"\"", "b", "3", "d", "-", "m", "a", "t", "h", ".", "h", "\"">>)

\* some file of the directory has an offense
offense_exists ==
    \E k \in 1..Len(examples_dir.c_files) : check_file(examples_dir.c_files[k]) # <<>>

\* C20: check_file returns a list whose first element is the missing-include
\* pseudo-offense exactly when the file contains a b3d_<mathfn>( call and no
\* #include of b3d-math.h; the pseudo-offense precedes all per-line
\* offenders, and the exit code is 1 if any offense exists in any file.
C20_MissingInclude ==
    /\ pc = "checked" =>
          /\ (errors # <<>> /\ errors[1] = missing_include)
                <=> (contains_wrapper_call(content) /\ ~includes_header(content))
          /\ \A k \in 2..Len(errors) : errors[k] # missing_include
    /\ pc = "exit" /\ offense_exists => exit_code = 1

----------------------------------------------------------------------------
(* C21: subscript notation in identifiers *)

index_chars == {"i", "j", "k", "l", "m", "0", "1", "2", "3", "4"}

\* the name is one character followed by one or more groups of an underscore
\* and an index character
subscripted(name) ==
    /\ Len(name) >= 3
    /\ Len(name) % 2 = 1
    /\ name[1] # "_"
    /\ \A i \in 2..Len(name) :
           IF i % 2 = 0 THEN name[i] = "_" ELSE name[i] \in index_chars

\* Index(...Index(Variable(c), Variable(x1))..., Variable(xn)) for c_x1_..._xn
RECURSIVE nested_index(_, _)
nested_index(name, n) ==
    IF n = 1 THEN VarExpr(<<name[1]>>)
    ELSE IndexExpr(nested_index(name, n - 2), VarExpr(<<name[n]>>))

\* the body of the definition is one identifier that has an underscore
body_is_identifier ==
    /\ Len(tokens) = 6
    /\ tokens[5].type = "IDENT"
    /\ \E i \in 1..Len(tokens[5].value) : tokens[5].value[i] = "_"

----------------------------------------------------------------------------
(* C22: the clean-up of substitute_index for a numeric index *)

numeric_indices == {<<"0">>, <<"1">>, <<"2">>, <<"3">>}

component_letter(idx) ==
    CASE idx = <<"0">> -> "x" [] idx = <<"1">> -> "y" [] idx = <<"2">> -> "z" [] idx = <<"3">> -> "w"

\* the text from position i on with every [idx.0f] written as [idx]
RECURSIVE unfloat(_, _, _)
unfloat(text, i, idx) ==
    IF i > Len(text) THEN <<>>
    ELSE IF starts_at(text, i, <<"[">> \o idx \o <<".", "0", "f", "]">>)
    THEN <<"[">> \o idx \o <<"]">> \o unfloat(text, i + Len(idx) + 5, idx)
    ELSE <<text[i]>> \o unfloat(text, i + 1, idx)

\* the text from position i on with [idx] written as the component when no
\* "[" follows it and, unless after_bracket, no "]" precedes it
RECURSIVE componentize(_, _, _, _)
componentize(text, i, idx, after_bracket) ==
    LET n == Len(idx) + 2
        followed == i + n <= Len(text) /\ text[i + n] = "["
        preceded == i > 1 /\ text[i - 1] = "]"
    IN  IF i > Len(text) THEN <<>>
        ELSE IF /\ starts_at(text, i, <<"[">> \o idx \o <<"]">>)
                /\ ~followed
                /\ after_bracket \/ ~preceded
        THEN <<".", component_letter(idx)>> \o componentize(text, i + n, idx, after_bracket)
        ELSE <<text[i]>> \o componentize(text, i + 1, idx, after_bracket)

\* the k-th term is one for a numeric index
numeric_term(k) == k \in 1..Len(terms) /\ indices[k] \in numeric_indices

\* the k-th term as it is to be: the body rendered (ctx is the value of
\* emit_int_context when the iteration began), the loop variable replaced by
\* the index, the numeric clean-up applied, the matrix indices cleaned
cleaned_term(k, ctx, after_bracket) ==
    LET idx == indices[k]
        rendered == emit_expr(expr.body, mode, suffix, ctx).code
        replaced == re_sub(expr.var, idx, rendered, "word")
        cleaned == clean_matrix_index(
                       componentize(unfloat(replaced, 1, idx), 1, idx, after_bracket))
    IN  IF expr.tag = "SumExpr" THEN <<"(">> \o cleaned \o <<")">> ELSE cleaned

\* C22 as stated: for an index 0, 1, 2, 3 every [idx.0f] becomes [idx] and
\* every [idx] not followed by "[" becomes the component, also directly after
\* a closing "]"
C22_ComponentAnywhere ==
    \A k \in 1..Len(terms) :
        numeric_term(k) => \E ctx \in BOOLEAN : terms[k] = cleaned_term(k, ctx, TRUE)

\* C22, amended: for an index 0, 1, 2, 3 every [idx.0f] becomes [idx], and
\* then every [idx] that is neither directly preceded by "]" nor directly
\* followed by "[" becomes the component .x, .y, .z, .w; an [idx] directly
\* after a closing "]" is left as it is
C22_NumericCleanup ==
    \A k \in 1..Len(terms) :
        numeric_term(k) => \E ctx \in BOOLEAN : terms[k] = cleaned_term(k, ctx, FALSE)

\* the terms of the sum of M[1][i] for i = 0 and 1 have been appended: the
\* second keeps its [1] after the closing bracket
C22_Witness ==
    /\ pc = "expand_iter"
    /\ expr = SumExpr(<<"i">>, <<"0", ".", ".", "3">>,
                      MatrixIndexExpr(VarExpr(<<"M">>), NumExpr(<<"1">>), VarExpr(<<"i">>)))
    /\ terms = <<<<"(", "M", ".", "m", "[", "1", "]", "[", "0", "]", ")">>, <<"(", "M", ".", "m", "[", "1", "]", "[", "1", "]", ")">>>>

----------------------------------------------------------------------------
(* C23: the body of a Sum *)

\* the expression that the text is parsed to when it is a whole body
body_of(text) == funcs_of(<<"v", "(", ")", " ", "=", " ">> \o text)[1].body

\* the + C is outside the Sum and A op B is its body
sum_then_rest(A, op, B, add, C) ==
    funcs[1].body = BinOpExpr(add,
                              SumExpr(<<"i">>, <<"x", "y", "z">>, body_of(A \o <<" ">> \o op \o <<" ">> \o B)),
                              body_of(C))

\* C23: the body of a Sum is of multiplicative precedence: SUM(i IN r) A op B
\* + C is parsed to BinOp(+, Sum(i, r, A op B), C), the Sum holding what A op
\* B is parsed to on its own; a following +, - or comparison and its operand
\* stay outside the Sum
C23_SumBindsMultiplicative ==
    pc = "generate_c" =>
        \A A \in SumOperands, op \in MulOperators, B \in SumOperands, add \in AddOperators :
            source = sum_program(A, op, B, add, <<"c">>) =>
                /\ Len(funcs) = 1
                /\ sum_then_rest(A, op, B, add, <<"c">>)
                /\ funcs[1].body.left.body.tag \in {"BinOpExpr", "DotAccessExpr"}
                /\ op \in {<<"*">>, <<"/">>} =>
                       funcs[1].body.left.body = BinOpExpr(op, body_of(A), body_of(B))

\* SUM(i IN xyz) a_i * 2 - c has been parsed: the difference is outside
C23_Witness ==
    /\ pc = "generate_c"
    /\ source = sum_program(<<"a", "_", "i">>, <<"*">>, <<"2">>, <<"-">>, <<"c">>)
    /\ funcs[1].body.tag = "BinOpExpr"
    /\ funcs[1].body.op = <<"-">>
    /\ funcs[1].body.left.tag = "SumExpr"
    /\ funcs[1].body.left.body =
           BinOpExpr(<<"*">>, IndexExpr(VarExpr(<<"a">>), VarExpr(<<"i">>)), NumExpr(<<"2">>))
    /\ funcs[1].body.right = VarExpr(<<"c">>)

----------------------------------------------------------------------------
(* C24: the forms of a let chain *)

\* the Let node of the bindings (a = 1 and) b = value and of the body
let_node(two, value, body) ==
    LetExpr((IF two THEN <<<<<<"a">>, NumExpr(<<"1">>)>>>> ELSE <<>>)
                \o <<<<<<"b">>, body_of(value)>>>>,
            body_of(body))

\* the program has been parsed to the one definition whose body is the node
parsed_to(node) ==
    /\ pc = "generate_c"
    /\ Len(funcs) = 1
    /\ funcs[1].body = node

\* the first token of the body cannot be read as going on with the value of
\* the last binding
starts_anew(value, body) ==
    /\ body[1] \notin {"-", "["}
    /\ body[1] = "(" => value[Len(value)] \in AsciiDigit

\* C24 as stated: the chain with semicolons, the chain with a let after each
\* semicolon, and both without the in are parsed to the same Let node, for
\* every body
C24_AllFormsSame ==
    pc \in {"generate_c", "raised"} =>
        \A two \in BOOLEAN, value \in LetValues, redundant \in BOOLEAN, with_in \in BOOLEAN,
           body \in LetBodies :
            source = let_program(two, value, redundant, with_in, body) =>
                parsed_to(let_node(two, value, body))

\* C24, amended: the chain with semicolons and the chain with a let after
\* each semicolon are parsed to the same Let node, bindings in source order;
\* without the in the node is the same when the body begins with a token
\* that cannot go on with the value of the last binding: not with "-" or "[",
\* and with "(" only after a value that ends in a number
C24_LetForms ==
    pc \in {"generate_c", "raised"} =>
        \A two \in BOOLEAN, value \in LetValues, redundant \in BOOLEAN, with_in \in BOOLEAN,
           body \in LetBodies :
            (/\ source = let_program(two, value, redundant, with_in, body)
             /\ with_in \/ starts_anew(value, body))
                => parsed_to(let_node(two, value, body))

\* let a = 1; let b = x + 1 a + b, without the in, has been parsed
C24_Witness ==
    /\ source = let_program(TRUE, <<"x", " ", "+", " ", "1">>, TRUE, FALSE, <<"a", " ", "+", " ", "b">>)
    /\ parsed_to(LetExpr(<<<<<<"a">>, NumExpr(<<"1">>)>>,
                           <<<<"b">>, BinOpExpr(<<"+">>, VarExpr(<<"x">>), NumExpr(<<"1">>))>>>>,
                         BinOpExpr(<<"+">>, VarExpr(<<"a">>), VarExpr(<<"b">>))))

----------------------------------------------------------------------------
(* C25: every let binding is declared *)

\* the names bound by the Let nodes of an expression, wherever they are
let_bound(e) ==
    UNION {{n.bindings[k][1] : k \in 1..Len(n.bindings)} :
              n \in {m \in nodes(e) : m.tag = "LetExpr"}}

\* the places of the text where the name stands as a whole word
word_positions(text, w) ==
    {i \in 1..(Len(text) - Len(w) + 1) :
        /\ SubSeq(text, i, i + Len(w) - 1) = w
        /\ i = 1 \/ ~is_word(text[i - 1])
        /\ i + Len(w) > Len(text) \/ ~is_word(text[i + Len(w)])}

\* the text declares the name, "<ctype> name = ", and the name does not
\* stand anywhere before its first declaration
declared_before_use(text, name) ==
    LET decls == {i \in word_positions(text, name) :
                     /\ starts_at(text, i + Len(name), <<" ", "=", " ">>)
                     /\ \E t \in {<<"f", "l", "o", "a", "t">>, <<"b", "3", "d", "_", "v", "e", "c", "_", "t">>, <<"b", "3", "d", "_", "m", "a", "t", "_", "t">>} :
                            i > Len(t) + 1 /\ SubSeq(text, i - Len(t) - 1, i - 1) = t \o <<" ">>}
    IN  /\ decls # {}
        /\ \A i \in word_positions(text, name) : \E d \in decls : d <= i

\* C25: every name bound by a let in the body of a function is emitted as a
\* C declaration "<ctype> name = <value>;" that comes before every use of the
\* name in the emitted function: no let binding is dropped
C25_EveryLetDeclared ==
    pc = "done" =>
        \A k \in 1..Len(funcs) : \A name \in let_bound(funcs[k].body) :
            declared_before_use(func_text(k), name)

----------------------------------------------------------------------------
(* C26: Parser.parse terminates *)

\* the result is past position p, unless it is a raised error
moves_on(r, p) == r.ok => r.pos > p

\* every function of the expression grammar, begun at p, consumes a token:
\* an iteration of a loop over operators, postfixes or elements consumes the
\* token it tests and what the function it calls consumes
expression_progress(p) ==
    /\ moves_on(parse_expr(tokens, p), p)
    /\ moves_on(parse_let(tokens, p), p)
    /\ moves_on(parse_conditional(tokens, p), p)
    /\ moves_on(parse_comparison(tokens, p), p)
    /\ moves_on(parse_additive(tokens, p), p)
    /\ moves_on(parse_multiplicative(tokens, p), p)
    /\ moves_on(parse_unary(tokens, p), p)
    /\ moves_on(parse_postfix(tokens, p), p)
    /\ moves_on(parse_primary(tokens, p), p)

\* the where block begun at p ends at or after p, and past the name, the IN
\* and the type when it has read a declaration
where_progress(p) ==
    LET q == skip_newlines(tokens, p)
        declared == /\ Parser_peek(tokens, q, 0).type \in {"IDENT", "THETA"}
                    /\ Parser_peek(tokens, q, 1).type = "IN"
        wb == parse_where_block(tokens, p, empty_dict)
    IN  /\ wb.pos >= p
        /\ declared => wb.pos >= q + 2

----------------------------------------------------------------------------
(* C27: the two type inferences on calls *)

\* the Call nodes of the parsed functions
call_nodes ==
    UNION {{n \in nodes(funcs[k].body) : n.tag = "CallExpr"} : k \in 1..Len(funcs)}

\* C27: for every Call the C type that infer_c_type gives it as the value of
\* a let binding is the C type of the return type that infer_return_type
\* gives it as the body of a function
C27_CallTypesAgree ==
    Parsed => \A n \in call_nodes :
                  infer_c_type(n) = c_type(infer_return_type(n, empty_dict))

----------------------------------------------------------------------------
(* C28: strip_comments_and_strings keeps the lines *)

\* the lines of a file: what stands between its line feeds (a line feed at
\* the end of the text ends the last line)
input_lines(text) ==
    LET ls == split_lines(text)
    IN  IF ls[Len(ls)] = <<>> THEN SubSeq(ls, 1, Len(ls) - 1) ELSE ls

\* the columns of a line that are code, from column i on in the lexical
\* state st, and whether the line ends inside a block comment; a literal
\* ends with its line
RECURSIVE scan_line(_, _, _)
scan_line(ln, i, st) ==
    IF i > Len(ln) THEN [code |-> {}, block |-> st = "block"]
    ELSE CASE st = "block" ->
                 IF starts_at(ln, i, <<"*", "/">>) THEN scan_line(ln, i + 2, "code")
                 ELSE scan_line(ln, i + 1, "block")
           [] st = "code" ->
                 IF starts_at(ln, i, <<"/", "*">>) THEN scan_line(ln, i + 2, "block")
                 ELSE IF starts_at(ln, i, <<"/", "/">>) THEN [code |-> {}, block |-> FALSE]
                 ELSE IF ln[i] = "\"" THEN scan_line(ln, i + 1, "string")
                 ELSE IF ln[i] = "'" THEN scan_line(ln, i + 1, "char")
                 ELSE LET r == scan_line(ln, i + 1, "code")
                      IN  [code |-> {i} \cup r.code, block |-> r.block]
           [] OTHER ->
                 IF ln[i] = BSL THEN scan_line(ln, i + 2, st)
                 ELSE IF ln[i] = (IF st = "string" THEN "\"" ELSE "'")
                 THEN scan_line(ln, i + 1, "code")
                 ELSE scan_line(ln, i + 1, st)

\* the state in which line k begins: only a block comment is carried over
RECURSIVE begins_in(_, _)
begins_in(lns, k) ==
    IF k = 1 THEN "code"
    ELSE IF scan_line(lns[k - 1], 1, begins_in(lns, k - 1)).block THEN "block" ELSE "code"

\* C28: strip_comments_and_strings returns one cleaned line for every line
\* of the content, each as long as its line, and every character outside of
\* comments and literals stands unchanged at its column; only the
\* block-comment state is carried from a line to the next
C28_LinePreserving ==
    (pc = "strip" /\ Len(cleaned_lines) = Len(splitlines(content, 1, <<>>))) =>
        LET lns == input_lines(content)
        IN  /\ Len(cleaned_lines) = Len(lns)
            /\ \A k \in 1..Len(lns) :
                   k <= Len(cleaned_lines) =>
                       /\ Len(cleaned_lines[k]) = Len(lns[k])
                       /\ \A c \in scan_line(lns[k], 1, begins_in(lns, k)).code :
                              c <= Len(cleaned_lines[k]) => cleaned_lines[k][c] = lns[k][c]


=============================================================================
